---------------------------- MODULE Spec2Model ----------------------------
(***************************************************************************)
(* Model of the reliability layer of the university-administration API:   *)
(* the persistent task queue of app/core/thread_queue_sync.py              *)
(* (SyncThreadQueueManager) together with the rollback processor of        *)
(* app/core/task_processors_sync.py.                                       *)
(*                                                                         *)
(* The task table lives in PostgreSQL (READ COMMITTED).  A worker's        *)
(* _process_next_task runs in ONE transaction: the claim                   *)
(* (SELECT ... FOR UPDATE SKIP LOCKED + flush) takes the row lock, the     *)
(* processor runs, and only the final db.commit() publishes the row and    *)
(* releases the lock.  The model therefore keeps the committed table       *)
(* (tasks) apart from each worker's in-session copy of its row (obj).      *)
(*                                                                         *)
(* A worker thread is modelled in two ways: as a thread that may call      *)
(* _process_next_task at any time (process_next_task_commit), which covers *)
(* every timing of the wake signal and of the poll timeout, and, where the *)
(* loop itself is the subject, step by step through _run_sync_worker       *)
(* (loop, tasks_processed) next to the monitor thread.                     *)
(* Where stop() is the subject, the flag test and the claim of a worker are *)
(* separate steps, stop() is split at its join loop, and threads that      *)
(* outlive a stop() keep their slot.                                       *)
(*                                                                         *)
(* The session-scoped pagination cursor of                                 *)
(* app/core/pagination_system_sync.py (SyncSmartPaginator) is modelled     *)
(* over the committed pagination_states table (sessions); each of its      *)
(* methods is one step, except where overlapping get_next_page calls are   *)
(* the subject: there the session lookup and the insert are two steps.     *)
(***************************************************************************)
EXTENDS Integers, Sequences, FiniteSets, TLC

\* ------------------------------------------------------------------ bounds
MaxTasks      == 2      \* rows the task table may hold
MaxQueued     == 3      \* tasks enqueued in the priority-ordering runs
MaxTicks      == 1      \* seconds the clock may advance in one behaviour
MaxRetryCalls == 1      \* successful retry_task calls in one behaviour
NumThreads    == 2      \* worker threads start() may be asked for
MaxBudget     == 4      \* largest max_retries enqueued in the retry runs
MaxRetryTasks == 1      \* tasks enqueued in the retry runs
DataRows      == 25     \* rows of the data set the list endpoints query
PageSize      == 10     \* the page_size a caller asks for
MaxSessions   == 2      \* pagination_states rows created in one behaviour
MaxWaits      == 1      \* jumps of the clock between paginator calls
MaxPages      == 3      \* pages asked of one pagination session
MaxLoopTasks  == 3      \* tasks enqueued for one worker loop
MaxRows       == 3      \* rows of the task table once rollback tasks are enqueued
MaxMonitors   == 2      \* monitor threads alive at the same time
MaxCalls      == 2      \* get_next_page calls under way at the same time

\* ------------------------------------------------------- program constants
lock_timeout  == 300    \* timedelta(minutes=5), seconds
BackoffBase   == 30     \* delay = min(30 * 2^retry_count, 300)
BackoffCap    == 300
RollbackPriority   == 1
DefaultMaxRetries  == 3
session_ttl_hours  == 24
default_page_size  == 20
FallbackLimit      == 20   \* page_size or 20
Hour               == 3600 \* seconds

\* ------------------------------------------------------------ input sets
NoTime   == -1          \* a NULL timestamp
NoWorker == 0           \* a NULL locked_by; worker_i is modelled as i
NoTask   == 0           \* no task id
NoData   == "none"      \* a NULL rollback_data / result / error_message

Priorities      == {1, 3, 5}
Outcomes        == {"success", "failure", "raise"}
Statuses        == {"pending", "processing", "completed", "failed", "cancelled"}

Threads == 1..NumThreads
TaskIds == 1..MaxTasks

VARIABLES
    running,      \* self._running
    notified,     \* self._task_notification (threading.Event)
    now,          \* datetime.utcnow()
    tasks,        \* committed rows of the task table, indexed by task id
    pc,           \* position of each worker thread inside _process_next_task
    wid,          \* worker_id of each worker thread
    cur,          \* task id whose row lock the thread's transaction holds
    obj,          \* the thread's in-session (uncommitted) copy of that row
    lastCall,     \* the last API call and its return value
    published,    \* the events the thread's running attempt handed to the monitor
    attempts,     \* history: execution attempts of each task
    retried,      \* history: task was manually retried
    retryCalls,   \* history: successful retry_task calls
    lastDelay,    \* history: the delay of each task's latest retry, 0 if none
    sessions,     \* committed rows of the pagination_states table
    page,         \* the last paginator call, its arguments and what it returned
    served,       \* history: pages served from each session row, by row id
    waits,        \* history: jumps of the clock between paginator calls
    loop,         \* position of each worker thread inside _run_sync_worker
    tasks_processed,  \* the thread's tasks_processed of the running sweep
    monitors,     \* live _task_monitor threads
    joining,      \* a stop() call is inside its join loop
    workers,      \* self._workers: the threads the latest start() created
    lookups       \* get_next_page calls between their session lookup and their insert

pageVars == <<sessions, page, served, waits, lookups>>

loopVars == <<loop, tasks_processed>>

poolVars == <<monitors, joining, workers>>

vars == <<running, notified, now, tasks, pc, wid, cur, obj, lastCall, published,
          attempts, retried, retryCalls, lastDelay, sessions, page, served, waits,
          loop, tasks_processed, monitors, joining, workers, lookups>>

\* ------------------------------------------------------------ Task model
\* the event publisher during one execution attempt: the monitor is off, or it
\* runs and at most one Redis call (publish or history store) of one event fails
Events == {"task_started", "task_completed", "task_failed"}
NoFault == [event |-> "none", call |-> "none"]
MonitorOff == [event |-> "off", call |-> "none"]
Faults == {NoFault, MonitorOff} \cup [event : Events, call : {"publish", "store"}]

NoCall == [op |-> "none", task_id |-> NoTask, result |-> FALSE,
           outcome |-> "none", fault |-> NoFault]

\* an API call and its return value
Call(op, task_id, result) ==
    [NoCall EXCEPT !.op = op, !.task_id = task_id, !.result = result]

\* the columns add_task leaves to the Task model's defaults
TaskDefaults ==
    [ retry_count      |-> 0,
      started_at       |-> NoTime,
      completed_at     |-> NoTime,
      locked_by        |-> NoWorker,
      locked_at        |-> NoTime,
      error_message    |-> NoData,
      progress         |-> 0,
      result           |-> NoData,
      needs_rollback   |-> FALSE ]

\* Task(...) as add_task builds it; original_task_id is the key of that name
\* in the payload
NewTask(task_type, data, original_task_id, priority, max_retries, rollback_data) ==
    [ task_type        |-> task_type,
      status           |-> "pending",
      priority         |-> priority,
      max_retries      |-> max_retries,
      scheduled_at     |-> now,
      data             |-> data,
      original_task_id |-> original_task_id,
      rollback_data    |-> rollback_data ] @@ TaskDefaults

NoRow == [NewTask("none", NoData, NoTask, 0, 0, NoData) EXCEPT !.scheduled_at = NoTime]

\* Task.can_retry
can_retry(t) == t.retry_count < t.max_retries

\* Task.unlock
unlock(t) == [t EXCEPT !.locked_by = NoWorker, !.locked_at = NoTime]

\* mutant: every type resolves to a processor
get_task_processor_Fallback(task_type) == TRUE

\* TASK_PROCESSORS.get(task_type)
get_task_processor(task_type) ==
    task_type \in {"create_estudiante", "rollback_operation"}

\* 2 ** n
RECURSIVE Pow2(_)
Pow2(n) == IF n <= 0 THEN 1 ELSE 2 * Pow2(n - 1)

Min(a, b) == IF a <= b THEN a ELSE b

\* mutant: the exponential delay without its cap
BackoffDelay_Uncapped(retry_count) == BackoffBase * Pow2(retry_count)

\* delay = min(30 * (2**task.retry_count), 300)
BackoffDelay(retry_count) == Min(BackoffBase * Pow2(retry_count), BackoffCap)

\* ------------------------------------------------------- store helpers
Ids == 1..Len(tasks)

\* mutant: the claim query without FOR UPDATE SKIP LOCKED
RowLocked_Never(id) == FALSE

\* the row lock taken by with_for_update and held until db.commit()
RowLocked(id) == \E t \in Threads : cur[t] = id

\* the newest version of a row: the lock holder's copy, else the committed row
View(id) ==
    IF \E t \in Threads : cur[t] = id
    THEN obj[CHOOSE t \in Threads : cur[t] = id]
    ELSE tasks[id]

\* mutant: the claim query without the status filter
Eligible_AnyStatus(id) ==
    /\ \/ tasks[id].locked_by = NoWorker
       \/ (tasks[id].locked_at # NoTime /\ tasks[id].locked_at < now - lock_timeout)
    /\ ~RowLocked(id)

\* filter of _get_and_lock_task; skip_locked leaves out rows locked by others
Eligible(id) ==
    /\ tasks[id].status = "pending"
    /\ \/ tasks[id].locked_by = NoWorker
       \/ (tasks[id].locked_at # NoTime /\ tasks[id].locked_at < now - lock_timeout)
    /\ ~RowLocked(id)

\* mutant: first in, first out, whatever the priority
OrderedBefore_Fifo(a, b) == a.scheduled_at <= b.scheduled_at

\* order_by(Task.priority.asc(), Task.scheduled_at.asc())
OrderedBefore(a, b) ==
    \/ a.priority < b.priority
    \/ (a.priority = b.priority /\ a.scheduled_at <= b.scheduled_at)

\* .first(): a row no eligible row precedes (the database picks among ties)
ClaimCandidates ==
    { id \in Ids : Eligible(id) /\
        \A j \in Ids : Eligible(j) => OrderedBefore(tasks[id], tasks[j]) }


\* ------------------------------------------------------- PaginationState model
NoSize     == 0         \* page_size = None
NoEndpoint == "none"    \* endpoint = None

SessionIds == {"A", "B"}
Endpoints  == {"estudiantes_list", "materias_list"}

\* query_params is a dict: a sequence of items with distinct keys, in
\* insertion order; a None value is written "null"
Item(k, v) == [k |-> k, v |-> v]

\* the keys _generate_query_hash leaves out
PaginationKeys == {"page", "limit", "session_id", "page_size"}

\* the keys of the model in the order Python compares them
KeyOrder == <<"carrera_codigo", "limit", "page", "search">>

Rank(k) == CHOOSE i \in 1..Len(KeyOrder) : KeyOrder[i] = k

\* sorted(params.items())
RECURSIVE sorted(_)
sorted(items) ==
    IF items = << >> THEN << >>
    ELSE LET p    == Head(items)
             rest == sorted(Tail(items))
         IN  SelectSeq(rest, LAMBDA q : Rank(q.k) < Rank(p.k)) \o <<p>>
             \o SelectSeq(rest, LAMBDA q : Rank(q.k) >= Rank(p.k))

\* mutant: the fingerprint keeps the pagination keys
generate_query_hash_KeepAll(endpoint, params) == <<endpoint, sorted(params)>>

\* _generate_query_hash: sha256 of "endpoint:json" is kept as the pair of
\* the endpoint and the sorted, filtered items that json.dumps writes out
generate_query_hash(endpoint, params) ==
    <<endpoint, SelectSeq(sorted(params), LAMBDA p : p.k \notin PaginationKeys)>>

\* the columns get_or_create_session leaves to the model's defaults
PaginationDefaults ==
    [ current_page |-> 0,
      total_items  |-> 0,
      is_active    |-> TRUE ]

\* PaginationState(...) as get_or_create_session builds it
NewState(id, session_id, endpoint, query_hash, page_size, params) ==
    [ id             |-> id,
      session_id     |-> session_id,
      endpoint       |-> endpoint,
      query_hash     |-> query_hash,
      items_per_page |-> page_size,
      expires_at     |-> now + session_ttl_hours * Hour,
      query_params   |-> params,
      returned_items |-> << >>,
      last_accessed  |-> now ] @@ PaginationDefaults

\* PaginationState.is_expired
is_expired(st) == now > st.expires_at

\* PaginationState.add_returned_items
add_returned_items(st, ids) == [st EXCEPT !.returned_items = @ \o ids]

\* the data set behind the list endpoints: row i has id i
Rows == [i \in 1..DataRows |-> i]

\* query_function(db, offset, limit, **query_params) on a stable data set
query_function(offset, limit) ==
    SubSeq(Rows, offset + 1, Min(offset + limit, DataRows))

\* _get_total_count
get_total_count ==
    LET sample_count == Len(query_function(0, 1000)) IN
    IF sample_count < 1000 THEN sample_count ELSE sample_count + 100

\* no paginator call yet
NoPage ==
    [ op |-> "none", session_id |-> "none", endpoint |-> "none",
      query_params |-> << >>, query_hash |-> << >>, page_size |-> 0,
      fail |-> "none", raised |-> FALSE,
      row |-> 0, created |-> FALSE, offset |-> -1, items |-> << >>,
      current_page |-> 0, items_per_page |-> 0, items_in_page |-> 0,
      total_items_returned |-> 0, total_items_available |-> 0,
      has_more_pages |-> FALSE, error |-> "none", result |-> FALSE, count |-> 0 ]

InitPage ==
    /\ sessions = << >>
    /\ page = NoPage
    /\ served = << >>
    /\ waits = 0
    /\ lookups = << >>

\* ------------------------------------------------------------ initial states
\* the engine as constructed, over an empty task table
Init ==
    /\ running = FALSE
    /\ notified = FALSE
    /\ now = 0
    /\ tasks = << >>
    /\ pc = [t \in Threads |-> "none"]
    /\ wid = [t \in Threads |-> NoWorker]
    /\ cur = [t \in Threads |-> NoTask]
    /\ obj = [t \in Threads |-> NoRow]
    /\ lastCall = NoCall
    /\ published = [t \in Threads |-> << >>]
    /\ loop = [t \in Threads |-> "wait"]
    /\ tasks_processed = [t \in Threads |-> 0]
    /\ monitors = 0
    /\ joining = FALSE
    /\ workers = {}
    /\ attempts = << >>
    /\ retried = << >>
    /\ retryCalls = 0
    /\ lastDelay = << >>
    /\ InitPage

\* ------------------------------------------------------------ clock
Tick(from) ==
    /\ now < from + MaxTicks
    /\ now' = now + 1
    /\ lastCall' = NoCall
    /\ UNCHANGED pageVars
    /\ UNCHANGED poolVars
    /\ UNCHANGED loopVars
    /\ UNCHANGED published
    /\ UNCHANGED <<running, notified, tasks, pc, wid, cur, obj,
                   attempts, retried, retryCalls, lastDelay>>

\* ------------------------------------------------------------ add_task
\* the store after add_task inserted and committed a row
Inserted(store, task_type, data, original_task_id, priority, max_retries, rollback_data) ==
    Append(store, NewTask(task_type, data, original_task_id, priority,
                          max_retries, rollback_data))

add_task(task_type, priority, max_retries, rollback_data) ==
    /\ tasks' = Inserted(tasks, task_type, "payload", NoTask, priority,
                         max_retries, rollback_data)
    /\ attempts' = Append(attempts, 0)
    /\ retried' = Append(retried, FALSE)
    /\ lastDelay' = Append(lastDelay, 0)
    /\ notified' = TRUE
    /\ lastCall' = Call("add_task", Len(tasks) + 1, TRUE)
    /\ UNCHANGED pageVars
    /\ UNCHANGED poolVars
    /\ UNCHANGED loopVars
    /\ UNCHANGED published
    /\ UNCHANGED <<running, now, pc, wid, cur, obj, retryCalls>>

\* ------------------------------------------------------------ start
\* mutant: a lock exactly lock_timeout old already counts as expired
Orphaned_Inclusive(t) ==
    /\ t.status = "processing"
    /\ t.locked_at # NoTime
    /\ t.locked_at <= now - lock_timeout

\* the filter of _recover_orphaned_tasks
Orphaned(t) ==
    /\ t.status = "processing"
    /\ t.locked_at # NoTime
    /\ t.locked_at < now - lock_timeout

\* mutant: the sweep without task.unlock()
RecoverRow_KeepLock(t) ==
    IF Orphaned(t)
    THEN [t EXCEPT !.status = "pending", !.started_at = NoTime]
    ELSE t

\* _recover_orphaned_tasks applied to one row
RecoverRow(t) ==
    IF Orphaned(t)
    THEN [unlock(t) EXCEPT !.status = "pending", !.started_at = NoTime]
    ELSE t

recover_orphaned_tasks(store) == [id \in DOMAIN store |-> RecoverRow(store[id])]

\* the thread slots no live worker thread occupies
FreeSlots == { t \in Threads : pc[t] = "none" }

\* the slots of the threads worker_1 .. worker_n that start() creates
NewWorkers(n) == { t \in FreeSlots : Cardinality({ u \in FreeSlots : u < t }) < n }

\* worker_id = f"worker_{i+1}" of the thread in a new slot
WorkerId(t) == 1 + Cardinality({ u \in FreeSlots : u < t })

\* start(max_workers): a running engine returns at once; otherwise the sweep
\* runs, the worker threads worker_1 .. worker_n are started and appended to
\* self._workers, and a monitor thread is started
start(max_workers) ==
    /\ lastCall' = Call("start", NoTask, ~running)
    /\ IF running
       THEN UNCHANGED <<running, notified, tasks, pc, wid, loop, tasks_processed,
                        monitors, workers>>
       ELSE /\ Cardinality(FreeSlots) >= max_workers
            /\ running' = TRUE
            /\ notified' = FALSE
            /\ tasks' = recover_orphaned_tasks(tasks)
            /\ pc' = [t \in Threads |->
                         IF t \in NewWorkers(max_workers) THEN "idle" ELSE pc[t]]
            /\ wid' = [t \in Threads |->
                         IF t \in NewWorkers(max_workers) THEN WorkerId(t) ELSE wid[t]]
            /\ loop' = [t \in Threads |->
                         IF t \in NewWorkers(max_workers) THEN "wait" ELSE loop[t]]
            /\ tasks_processed' = [t \in Threads |->
                         IF t \in NewWorkers(max_workers) THEN 0
                         ELSE tasks_processed[t]]
            /\ workers' = workers \cup NewWorkers(max_workers)
            /\ monitors' = monitors + 1
    /\ UNCHANGED pageVars
    /\ UNCHANGED published
    /\ UNCHANGED <<now, cur, obj, attempts, retried, retryCalls, lastDelay, joining>>

\* ------------------------------------------------------------ _process_next_task
\* the row as _get_and_lock_task flushes it
Locked(t, worker_id) ==
    [t EXCEPT !.status = "processing", !.locked_by = worker_id,
              !.locked_at = now, !.started_at = now]

get_and_lock_task(t, id) ==
    /\ pc[t] = "idle"
    /\ running
    /\ id \in ClaimCandidates
    /\ cur' = [cur EXCEPT ![t] = id]
    /\ obj' = [obj EXCEPT ![t] = Locked(tasks[id], wid[t])]
    /\ pc' = [pc EXCEPT ![t] = "exec"]
    /\ lastCall' = NoCall
    /\ UNCHANGED pageVars
    /\ UNCHANGED poolVars
    /\ UNCHANGED loopVars
    /\ UNCHANGED published
    /\ UNCHANGED <<running, notified, now, tasks, wid, attempts,
                   retried, retryCalls, lastDelay>>

\* mutant: a retry that does not count itself
handle_task_failure_NoCount(t) ==
    LET u == [unlock(t) EXCEPT !.error_message = "error"] IN
    IF can_retry(u)
    THEN [u EXCEPT !.status = "pending",
                   !.started_at = NoTime,
                   !.scheduled_at = now + BackoffDelay(u.retry_count + 1)]
    ELSE [u EXCEPT !.status = "failed",
                   !.completed_at = now,
                   !.needs_rollback = TRUE]

\* mutant: a failure handler that leaves the lock on the row
handle_task_failure_KeepLock(t) ==
    LET u == [t EXCEPT !.error_message = "error"] IN
    IF can_retry(u)
    THEN [u EXCEPT !.status = "pending",
                   !.retry_count = u.retry_count + 1,
                   !.started_at = NoTime,
                   !.scheduled_at = now + BackoffDelay(u.retry_count + 1)]
    ELSE [u EXCEPT !.status = "failed",
                   !.completed_at = now,
                   !.needs_rollback = TRUE]

\* _handle_task_failure on the in-session row
handle_task_failure(t) ==
    LET u == [unlock(t) EXCEPT !.error_message = "error"] IN
    IF can_retry(u)
    THEN [u EXCEPT !.status = "pending",
                   !.retry_count = u.retry_count + 1,
                   !.started_at = NoTime,
                   !.scheduled_at = now + BackoffDelay(u.retry_count + 1)]
    ELSE [u EXCEPT !.status = "failed",
                   !.completed_at = now,
                   !.needs_rollback = TRUE]

\* _handle_task_failure reaches _schedule_rollback
SchedulesRollback(t) == ~can_retry(t) /\ t.rollback_data # NoData

\* mutant: the rollback task inherits the rollback payload of the failed task
schedule_rollback_WithPayload(store, id, failed_task) ==
    Inserted(store, "rollback_operation", failed_task.rollback_data, id,
             RollbackPriority, DefaultMaxRetries, failed_task.rollback_data)

\* mutant: the rollback task is enqueued with add_task's default priority
schedule_rollback_DefaultPriority(store, id, failed_task) ==
    Inserted(store, "rollback_operation", failed_task.rollback_data, id,
             5, DefaultMaxRetries, NoData)

\* the store after _schedule_rollback(failed_task)
schedule_rollback(store, id, failed_task) ==
    Inserted(store, "rollback_operation", failed_task.rollback_data, id,
             RollbackPriority, DefaultMaxRetries, NoData)

\* mutant: the success branch without task.unlock()
Completed_KeepLock(t) ==
    [t EXCEPT !.status = "completed", !.result = "ok",
              !.progress = 100, !.completed_at = now]

\* the success branch of _execute_task
Completed(t) ==
    [unlock(t) EXCEPT !.status = "completed", !.result = "ok",
                      !.progress = 100, !.completed_at = now]

\* process_rollback_operation: the operations it dispatches to RollbackManager
RollbackSupported(operation) == operation \in {"create", "update"}

\* process_rollback_operation writes needs_rollback = False to the original
\* task; the ORM emits an UPDATE only when the loaded value differs
MarkRolledBack(store, orig) ==
    IF orig \in DOMAIN store /\ store[orig].needs_rollback
    THEN [store EXCEPT ![orig].needs_rollback = FALSE]
    ELSE store

\* what the processor lookup and the processor make of one run of
\* _execute_task: no processor, or the processor's outcome
\* (process_rollback_operation catches every exception)
AttemptResult(t, outcome) ==
    IF ~get_task_processor(t.task_type) THEN "noproc"
    ELSE IF t.task_type = "rollback_operation"
         THEN IF RollbackSupported(t.data) /\ outcome = "success"
              THEN "success" ELSE "failure"
         ELSE outcome

\* mutant: _publish_event without its try/except
publish_event_NoCatch(event_type, fault) ==
    IF fault.event = event_type /\ fault.call = "publish"
    THEN "raised" ELSE "published"

\* _publish_event: redis_client.publish inside try/except
publish_event(event_type, fault) ==
    IF fault.event = event_type /\ fault.call = "publish"
    THEN "caught" ELSE "published"

\* _store_event: lpush and ltrim inside try/except
store_event(event_type, fault) ==
    IF fault.event = event_type /\ fault.call = "store"
    THEN "caught" ELSE "stored"

\* publish_task_event: nothing while the monitor is off, else publish and store
publish_task_event(event_type, fault) ==
    IF fault = MonitorOff THEN "returned"
    ELSE IF publish_event(event_type, fault) = "raised" THEN "raised"
    ELSE IF store_event(event_type, fault) = "raised" THEN "raised"
    ELSE "returned"

\* how _execute_task ends: task_started is published before the processor
\* lookup, task_completed after the success branch; an exception raised by
\* either is one more exception of _execute_task (one raised while publishing
\* task_failed replaces the exception already on its way)
ExecuteResult(t, outcome, fault) ==
    IF publish_task_event("task_started", fault) = "raised" THEN "started_raise"
    ELSE LET res == AttemptResult(t, outcome) IN
         IF res = "success" /\ publish_task_event("task_completed", fault) = "raised"
         THEN "completed_raise"
         ELSE res

\* mutant: the missing processor is reported outside the try block
ExecuteTrace_SilentLookup(t, outcome, fault) ==
    LET res == ExecuteResult(t, outcome, fault) IN
    IF res = "started_raise" THEN <<"task_started", "task_failed">>
    ELSE IF res = "noproc" THEN <<"task_started">>
    ELSE IF res = "success" THEN <<"task_started", "processor", "task_completed">>
    ELSE IF res = "completed_raise"
         THEN <<"task_started", "processor", "task_completed", "task_failed">>
    ELSE <<"task_started", "processor", "task_failed">>

\* the publish_task_event calls of one run of _execute_task, in order, with
\* the processor call between them
ExecuteTrace(t, outcome, fault) ==
    LET res == ExecuteResult(t, outcome, fault) IN
    IF res = "started_raise" THEN <<"task_started", "task_failed">>
    ELSE IF res = "noproc" THEN <<"task_started", "task_failed">>
    ELSE IF res = "success" THEN <<"task_started", "processor", "task_completed">>
    ELSE IF res = "completed_raise"
         THEN <<"task_started", "processor", "task_completed", "task_failed">>
    ELSE <<"task_started", "processor", "task_failed">>

\* the in-session row when _execute_task returns or raises
Progressed(t, res) ==
    IF res \in {"noproc", "started_raise"} THEN t
    ELSE IF res = "raise" THEN [t EXCEPT !.progress = 10]
    ELSE IF res = "completed_raise" THEN Completed([t EXCEPT !.progress = 90])
    ELSE [t EXCEPT !.progress = 90]

\* the in-session row after _execute_task and, on an exception,
\* _handle_task_failure
ExecutedRow(t, outcome, fault) ==
    LET res == ExecuteResult(t, outcome, fault)
        p   == Progressed(t, res)
    IN  IF res = "success" THEN Completed(p) ELSE handle_task_failure(p)

\* _execute_task followed, on an exception, by _handle_task_failure, over a
\* task table that holds at most max_rows rows
execute_task_within(t, outcome, fault, max_rows) ==
    /\ pc[t] = "exec"
    /\ LET id   == cur[t]
           res  == ExecuteResult(obj[t], outcome, fault)
           p    == Progressed(obj[t], res)
           orig == obj[t].original_task_id
           row  == ExecutedRow(obj[t], outcome, fault)
           \* the rollback processor returned success
           rolled  == /\ res \in {"success", "completed_raise"}
                      /\ p.task_type = "rollback_operation"
           store   == IF rolled THEN MarkRolledBack(tasks, orig) ELSE tasks
           inserts == res # "success" /\ SchedulesRollback(p)
           counted == [attempts EXCEPT ![id] = @ + 1]
           delayed == IF res # "success" /\ row.status = "pending"
                      THEN [lastDelay EXCEPT ![id] = row.scheduled_at - now]
                      ELSE lastDelay
       IN  /\ obj' = [obj EXCEPT ![t] = row]
           \* the UPDATE of the original row waits for its row lock
           /\ (rolled /\ orig \in Ids /\ tasks[orig].needs_rollback)
                 => ~RowLocked(orig)
           /\ IF inserts
              THEN /\ Len(tasks) < max_rows
                   /\ tasks' = schedule_rollback(store, id, p)
                   /\ notified' = TRUE
                   /\ attempts' = Append(counted, 0)
                   /\ retried' = Append(retried, FALSE)
                   /\ lastDelay' = Append(delayed, 0)
              ELSE /\ tasks' = store
                   /\ attempts' = counted
                   /\ lastDelay' = delayed
                   /\ UNCHANGED <<notified, retried>>
           /\ lastCall' = IF fault.call = "none" THEN NoCall
                          ELSE [NoCall EXCEPT !.op = "execute", !.task_id = id,
                                              !.outcome = outcome, !.fault = fault]
    /\ published' = [published EXCEPT ![t] = ExecuteTrace(obj[t], outcome, fault)]
    /\ pc' = [pc EXCEPT ![t] = "commit"]
    /\ UNCHANGED pageVars
    /\ UNCHANGED poolVars
    /\ UNCHANGED loopVars
    /\ UNCHANGED <<running, now, wid, cur, retryCalls>>

\* the same over a table of the size the enqueue requests are held to
execute_task(t, outcome, fault) == execute_task_within(t, outcome, fault, MaxTasks)

\* finally: db.commit() publishes the row and releases the row lock
Committed(t) ==
    /\ pc[t] = "commit"
    /\ tasks' = [tasks EXCEPT ![cur[t]] = obj[t]]
    /\ cur' = [cur EXCEPT ![t] = NoTask]
    /\ obj' = [obj EXCEPT ![t] = NoRow]
    /\ pc' = [pc EXCEPT ![t] = "idle"]
    /\ published' = [published EXCEPT ![t] = << >>]
    /\ lastCall' = NoCall
    /\ UNCHANGED pageVars
    /\ UNCHANGED poolVars
    /\ UNCHANGED <<running, notified, now, wid, attempts, retried, retryCalls,
                   lastDelay>>

\* the end of one _process_next_task call of a worker whose loop is left out
process_next_task_commit(t) ==
    /\ Committed(t)
    /\ UNCHANGED loopVars

\* ------------------------------------------------------------ _run_sync_worker
BatchCap == 10

\* mutant: a sweep that is never cut short
BatchFull_Never(n) == FALSE

\* if tasks_processed >= 10: break
BatchFull(n) == n >= BatchCap

\* mutant: a wait without timeout
wait_NoTimeout(signal) == signal

\* Event.wait(timeout=self._check_interval) is over when the signal is set or
\* the timeout has run out, which it may have at any step
wait(signal) == signal \/ TRUE

\* self._task_notification.wait(...) returns and the sweep starts with
\* tasks_processed = 0
run_sync_worker_wait(t) ==
    /\ pc[t] = "idle"
    /\ loop[t] = "wait"
    /\ wait(notified)
    /\ running
    /\ loop' = [loop EXCEPT ![t] = "sweep"]
    /\ tasks_processed' = [tasks_processed EXCEPT ![t] = 0]
    /\ lastCall' = NoCall
    /\ UNCHANGED pageVars
    /\ UNCHANGED poolVars
    /\ UNCHANGED <<running, notified, now, tasks, pc, wid, cur, obj,
                   published, attempts, retried, retryCalls, lastDelay>>

\* _process_next_task called from the sweep claims a task
run_sync_worker_claim(t, id) ==
    /\ loop[t] = "sweep"
    /\ get_and_lock_task(t, id)

\* _process_next_task returned True: tasks_processed += 1 and the test of the
\* batch cap
run_sync_worker_round(t) ==
    /\ loop[t] = "sweep"
    /\ Committed(t)
    /\ tasks_processed' = [tasks_processed EXCEPT ![t] = @ + 1]
    /\ loop' = [loop EXCEPT ![t] = IF BatchFull(tasks_processed[t] + 1)
                                   THEN "raise" ELSE "sweep"]

\* _process_next_task found no task and returned False: the sweep ends
run_sync_worker_empty(t) ==
    /\ pc[t] = "idle"
    /\ loop[t] = "sweep"
    /\ running
    /\ ClaimCandidates = {}
    /\ loop' = [loop EXCEPT ![t] = IF tasks_processed[t] > 0
                                   THEN "raise" ELSE "clear"]
    /\ lastCall' = NoCall
    /\ UNCHANGED pageVars
    /\ UNCHANGED poolVars
    /\ UNCHANGED <<running, notified, now, tasks, pc, wid, cur, obj,
                   published, attempts, retried, retryCalls, lastDelay,
                   tasks_processed>>

\* after the sweep: sleep(0.1) and set() when tasks were processed, clear()
\* when none was; then back to the wait
run_sync_worker_signal(t) ==
    /\ loop[t] \in {"raise", "clear"}
    /\ notified' = (loop[t] = "raise")
    /\ loop' = [loop EXCEPT ![t] = "wait"]
    /\ lastCall' = NoCall
    /\ UNCHANGED pageVars
    /\ UNCHANGED poolVars
    /\ UNCHANGED <<running, now, tasks, pc, wid, cur, obj,
                   published, attempts, retried, retryCalls, lastDelay,
                   tasks_processed>>

\* one round of _task_monitor: the signal is raised when a pending row exists
task_monitor ==
    /\ monitors > 0
    /\ running
    /\ notified' = IF \E id \in Ids : tasks[id].status = "pending"
                   THEN TRUE ELSE notified
    /\ lastCall' = NoCall
    /\ UNCHANGED pageVars
    /\ UNCHANGED poolVars
    /\ UNCHANGED loopVars
    /\ UNCHANGED <<running, now, tasks, pc, wid, cur, obj,
                   published, attempts, retried, retryCalls, lastDelay>>

\* while self._running is false: the monitor thread ends
task_monitor_exit ==
    /\ monitors > 0
    /\ ~running
    /\ monitors' = monitors - 1
    /\ lastCall' = NoCall
    /\ UNCHANGED pageVars
    /\ UNCHANGED loopVars
    /\ UNCHANGED published
    /\ UNCHANGED <<running, notified, now, tasks, pc, wid, cur, obj,
                   attempts, retried, retryCalls, lastDelay, joining, workers>>

\* ------------------------------------------------------------ stop
\* the steps of _run_sync_worker one by one, for an engine that is stopped
\* while its workers run.  (run_sync_worker_claim and run_sync_worker_empty
\* take the test of self._running and the call in one step, which is the same
\* as long as the flag stays true.)
\* while self._running: the test before each _process_next_task call
run_sync_worker_test(t) ==
    /\ pc[t] = "idle"
    /\ loop[t] = "sweep"
    /\ loop' = [loop EXCEPT ![t] = IF running THEN "call"
                                   ELSE IF tasks_processed[t] > 0 THEN "raise"
                                   ELSE "clear"]
    /\ lastCall' = NoCall
    /\ UNCHANGED pageVars
    /\ UNCHANGED poolVars
    /\ UNCHANGED <<running, notified, now, tasks, pc, wid, cur, obj,
                   published, attempts, retried, retryCalls, lastDelay,
                   tasks_processed>>

\* _process_next_task, called after the test, claims a task
run_sync_worker_call(t, id) ==
    /\ pc[t] = "idle"
    /\ loop[t] = "call"
    /\ id \in ClaimCandidates
    /\ cur' = [cur EXCEPT ![t] = id]
    /\ obj' = [obj EXCEPT ![t] = Locked(tasks[id], wid[t])]
    /\ pc' = [pc EXCEPT ![t] = "exec"]
    /\ loop' = [loop EXCEPT ![t] = "sweep"]
    /\ lastCall' = NoCall
    /\ UNCHANGED pageVars
    /\ UNCHANGED poolVars
    /\ UNCHANGED published
    /\ UNCHANGED <<running, notified, now, tasks, wid, attempts,
                   retried, retryCalls, lastDelay, tasks_processed>>

\* _process_next_task, called after the test, finds no task
run_sync_worker_none(t) ==
    /\ pc[t] = "idle"
    /\ loop[t] = "call"
    /\ ClaimCandidates = {}
    /\ loop' = [loop EXCEPT ![t] = IF tasks_processed[t] > 0
                                   THEN "raise" ELSE "clear"]
    /\ lastCall' = NoCall
    /\ UNCHANGED pageVars
    /\ UNCHANGED poolVars
    /\ UNCHANGED <<running, notified, now, tasks, pc, wid, cur, obj,
                   published, attempts, retried, retryCalls, lastDelay,
                   tasks_processed>>

\* the outer while self._running, or the test after the wait, finds the flag
\* false: the thread ends
run_sync_worker_exit(t) ==
    /\ pc[t] = "idle"
    /\ loop[t] = "wait"
    /\ ~running
    /\ pc' = [pc EXCEPT ![t] = "none"]
    /\ wid' = [wid EXCEPT ![t] = NoWorker]
    /\ lastCall' = NoCall
    /\ UNCHANGED pageVars
    /\ UNCHANGED poolVars
    /\ UNCHANGED loopVars
    /\ UNCHANGED <<running, notified, now, tasks, cur, obj,
                   published, attempts, retried, retryCalls, lastDelay>>

\* stop() up to its join loop: a stopped engine returns at once; otherwise
\* the flag is cleared and the workers are woken
stop ==
    /\ IF running
       THEN /\ running' = FALSE
            /\ notified' = TRUE
            /\ joining' = TRUE
            /\ lastCall' = NoCall
       ELSE /\ lastCall' = Call("stop", NoTask, FALSE)
            /\ UNCHANGED <<running, notified, joining>>
    /\ UNCHANGED pageVars
    /\ UNCHANGED loopVars
    /\ UNCHANGED published
    /\ UNCHANGED <<now, tasks, pc, wid, cur, obj, attempts, retried, retryCalls,
                   lastDelay, monitors, workers>>

\* worker.join(timeout=5) is over: the thread has ended, or five seconds have
\* passed, which takes a thread that is inside a processor or a database call
JoinOver(t) ==
    \/ pc[t] = "none"
    \/ pc[t] \in {"exec", "commit"}
    \/ loop[t] = "call"

\* the rest of stop(): every join is over, self._workers is cleared and the
\* call returns
stop_join ==
    /\ joining
    /\ \A t \in workers : JoinOver(t)
    /\ workers' = {}
    /\ joining' = FALSE
    /\ lastCall' = Call("stop", NoTask, TRUE)
    /\ UNCHANGED pageVars
    /\ UNCHANGED loopVars
    /\ UNCHANGED published
    /\ UNCHANGED <<running, notified, now, tasks, pc, wid, cur, obj,
                   attempts, retried, retryCalls, lastDelay, monitors>>

\* ------------------------------------------------------------ cancel / retry
\* mutant: cancel_task without the status filter
Cancellable_AnyStatus(id) == id \in Ids

\* mutant: cancel_task without task.unlock()
Cancelled_KeepLock(t) == [t EXCEPT !.status = "cancelled", !.completed_at = now]

\* filter of cancel_task
Cancellable(id) == id \in Ids /\ tasks[id].status \in {"pending", "processing"}

\* the row as cancel_task commits it
Cancelled(t) == [unlock(t) EXCEPT !.status = "cancelled", !.completed_at = now]

\* with_for_update(): the call waits while a worker's transaction holds the row
cancel_task(id) ==
    /\ id \in Ids => ~RowLocked(id)
    /\ IF Cancellable(id)
       THEN tasks' = [tasks EXCEPT ![id] = Cancelled(tasks[id])]
       ELSE UNCHANGED tasks
    /\ lastCall' = Call("cancel_task", id, Cancellable(id))
    /\ UNCHANGED pageVars
    /\ UNCHANGED poolVars
    /\ UNCHANGED loopVars
    /\ UNCHANGED published
    /\ UNCHANGED <<running, notified, now, pc, wid, cur, obj,
                   attempts, retried, retryCalls, lastDelay>>

\* mutant: retry_task that keeps the old error_message
Requeued_KeepError(t) ==
    [unlock(t) EXCEPT !.status = "pending",
                      !.started_at = NoTime, !.completed_at = NoTime]

\* guard of retry_task
Retryable(id) == id \in Ids /\ tasks[id].status = "failed"

\* the row as retry_task commits it
Requeued(t) ==
    [unlock(t) EXCEPT !.status = "pending", !.error_message = NoData,
                      !.started_at = NoTime, !.completed_at = NoTime]

retry_task(id) ==
    /\ id \in Ids => ~RowLocked(id)
    /\ IF Retryable(id)
       THEN /\ retryCalls < MaxRetryCalls
            /\ tasks' = [tasks EXCEPT ![id] = Requeued(tasks[id])]
            /\ notified' = TRUE
            /\ retried' = [retried EXCEPT ![id] = TRUE]
            /\ retryCalls' = retryCalls + 1
       ELSE UNCHANGED <<tasks, notified, retried, retryCalls>>
    /\ lastCall' = Call("retry_task", id, Retryable(id))
    /\ UNCHANGED pageVars
    /\ UNCHANGED poolVars
    /\ UNCHANGED loopVars
    /\ UNCHANGED published
    /\ UNCHANGED <<running, now, pc, wid, cur, obj, attempts, lastDelay>>

\* ------------------------------------------------------------ paginator
\* mutant: the session lookup does not filter on session_id
Matches_AnySession(st, session_id, endpoint, query_hash) ==
    st.endpoint = endpoint /\ st.query_hash = query_hash /\ st.is_active

\* filter of the lookup in get_or_create_session
Matches(st, session_id, endpoint, query_hash) ==
    /\ st.session_id = session_id
    /\ st.endpoint = endpoint
    /\ st.query_hash = query_hash
    /\ st.is_active

\* .first(): position of the first matching row, 0 if there is none
FirstMatch(store, session_id, endpoint, query_hash) ==
    LET hits == { i \in 1..Len(store) :
                    Matches(store[i], session_id, endpoint, query_hash) }
    IN  IF hits = {} THEN 0 ELSE CHOOSE i \in hits : \A j \in hits : i <= j

\* mutant: a matching session is continued whether it has expired or not
get_or_create_session_NoExpiry(store, session_id, endpoint, params, page_size) ==
    LET size == IF page_size = NoSize THEN default_page_size ELSE page_size
        query_hash == generate_query_hash(endpoint, params)
        i == FirstMatch(store, session_id, endpoint, query_hash)
    IN  IF i # 0
        THEN [ store   |-> [store EXCEPT ![i].last_accessed = now],
               at      |-> i,
               created |-> FALSE ]
        ELSE [ store   |-> Append(store, NewState(Len(served) + 1, session_id,
                                                  endpoint, query_hash, size,
                                                  params)),
               at      |-> Len(store) + 1,
               created |-> TRUE ]

\* the branch of get_or_create_session that creates a session: the row the
\* lookup found expired, if any, is deactivated and the new row is inserted
NewSession(store, found, session_id, endpoint, params, page_size) ==
    LET size == IF page_size = NoSize THEN default_page_size ELSE page_size
        query_hash == generate_query_hash(endpoint, params)
        stale == [ k \in 1..Len(store) |->
                     IF store[k].id = found
                     THEN [store[k] EXCEPT !.is_active = FALSE] ELSE store[k] ]
    IN  [ store   |-> Append(stale, NewState(Len(served) + 1, session_id,
                                             endpoint, query_hash, size, params)),
          at      |-> Len(store) + 1,
          created |-> TRUE ]

\* get_or_create_session: the table after its commit, the position of the row
\* it returns and whether that row is new
get_or_create_session(store, session_id, endpoint, params, page_size) ==
    LET query_hash == generate_query_hash(endpoint, params)
        i == FirstMatch(store, session_id, endpoint, query_hash)
    IN  IF i # 0 /\ ~is_expired(store[i])
        THEN [ store   |-> [store EXCEPT ![i].last_accessed = now],
               at      |-> i,
               created |-> FALSE ]
        ELSE NewSession(store, IF i # 0 THEN store[i].id ELSE 0,
                        session_id, endpoint, params, page_size)

\* the rows in the identity map of the Session get_next_page opens for the
\* query and commits: pagination_state was loaded by the Session of
\* get_or_create_session, which is closed when that method returns, and is
\* never added to this one
SessionObjects == {}

\* db.commit() of get_next_page: the UPDATE of the instances the Session holds
Flushed(store, i, st) ==
    IF st.id \in SessionObjects THEN [store EXCEPT ![i] = st] ELSE store

\* what the paginator's callers can make fail: nothing, the session lookup,
\* the query function, or either together with the query of the fallback
Failures == {"none", "lookup", "query", "lookup_fallback", "query_fallback"}

\* mutant: the fallback query outside a try/except of its own
Fallback_NoCatch(call, fail) ==
    IF fail \in {"lookup_fallback", "query_fallback"}
    THEN [call EXCEPT !.raised = TRUE]
    ELSE LET fallback_results ==
                 query_function(0, IF call.page_size = NoSize THEN FallbackLimit
                                   ELSE call.page_size)
         IN  [call EXCEPT !.items = fallback_results,
                          !.current_page = 1,
                          !.items_per_page = Len(fallback_results),
                          !.items_in_page = Len(fallback_results),
                          !.total_items_returned = Len(fallback_results),
                          !.total_items_available = Len(fallback_results),
                          !.has_more_pages = FALSE,
                          !.error = "fallback"]

\* the except branch of get_next_page; the exception of a failing fallback
\* query is caught as well
Fallback(call, fail) ==
    IF fail \in {"lookup_fallback", "query_fallback"}
    THEN [call EXCEPT !.error = "critical", !.raised = FALSE]
    ELSE LET fallback_results ==
                 query_function(0, IF call.page_size = NoSize THEN FallbackLimit
                                   ELSE call.page_size)
         IN  [call EXCEPT !.items = fallback_results,
                          !.current_page = 1,
                          !.items_per_page = Len(fallback_results),
                          !.items_in_page = Len(fallback_results),
                          !.total_items_returned = Len(fallback_results),
                          !.total_items_available = Len(fallback_results),
                          !.has_more_pages = FALSE,
                          !.error = "fallback"]

\* query_function(db=db, offset=..., limit=..., **query_params) is a TypeError
\* when query_params has the key limit itself, in the fallback as well
Raising(params, fail) ==
    IF \E n \in 1..Len(params) : params[n].k = "limit"
    THEN IF fail \in {"lookup", "lookup_fallback"} THEN "lookup_fallback"
         ELSE "query_fallback"
    ELSE fail

\* get_next_page once get_or_create_session has returned g
ServedPage(g, session_id, endpoint, params, page_size, failure) ==
    LET fail == Raising(params, failure)
        call == [NoPage EXCEPT !.op = "get_next_page",
                               !.session_id = session_id,
                               !.endpoint = endpoint,
                               !.query_params = params,
                               !.query_hash = generate_query_hash(endpoint, params),
                               !.page_size = page_size,
                               !.fail = fail]
        pagination_state == g.store[g.at]
        offset  == Len(pagination_state.returned_items)
        results == query_function(offset, pagination_state.items_per_page)
        counted == IF pagination_state.total_items = 0 THEN get_total_count
                   ELSE pagination_state.total_items
        updated == [add_returned_items(pagination_state, results)
                      EXCEPT !.current_page = @ + 1,
                             !.last_accessed = now,
                             !.total_items = counted]
        opened  == IF g.created THEN Append(served, 0) ELSE served
    IN  /\ IF fail \in {"lookup", "lookup_fallback"}
           THEN /\ page' = Fallback(call, fail)
                /\ UNCHANGED <<sessions, served>>
           ELSE /\ g.created => Len(served) < MaxSessions
                /\ IF fail \in {"query", "query_fallback"}
                   THEN /\ sessions' = g.store
                        /\ served' = opened
                        /\ page' = Fallback([call EXCEPT !.row = pagination_state.id,
                                                         !.created = g.created,
                                                         !.offset = offset], fail)
                   ELSE /\ ~g.created => served[pagination_state.id] < MaxPages
                        /\ sessions' = Flushed(g.store, g.at, updated)
                        /\ served' = [opened EXCEPT ![pagination_state.id] = @ + 1]
                        /\ page' =
                             [call EXCEPT
                                !.row = pagination_state.id,
                                !.created = g.created,
                                !.offset = offset,
                                !.items = results,
                                !.current_page = updated.current_page,
                                !.items_per_page = updated.items_per_page,
                                !.items_in_page = Len(results),
                                !.total_items_returned = Len(updated.returned_items),
                                !.total_items_available = updated.total_items,
                                !.has_more_pages =
                                    (Len(results) = updated.items_per_page)]
        /\ UNCHANGED <<running, notified, now, tasks, pc, wid, cur, obj, lastCall, published,
                   loop, tasks_processed, monitors, joining, workers,
                       attempts, retried, retryCalls, lastDelay, waits>>

\* a get_next_page call that no other call interleaves with
get_next_page(session_id, endpoint, params, page_size, failure) ==
    /\ ServedPage(get_or_create_session(sessions, session_id, endpoint, params,
                                        page_size),
                  session_id, endpoint, params, page_size, failure)
    /\ UNCHANGED lookups

\* a get_next_page call that other calls interleave with, up to the lookup of
\* get_or_create_session, which finds no session it can continue
get_or_create_session_lookup(session_id, endpoint, params, page_size) ==
    LET query_hash == generate_query_hash(endpoint, params)
        i == FirstMatch(sessions, session_id, endpoint, query_hash)
    IN  /\ Len(lookups) < MaxCalls
        /\ i # 0 => is_expired(sessions[i])
        /\ lookups' = Append(lookups,
                             [ session_id |-> session_id, endpoint |-> endpoint,
                               params |-> params, page_size |-> page_size,
                               found |-> IF i # 0 THEN sessions[i].id ELSE 0 ])
        /\ UNCHANGED <<running, notified, now, tasks, pc, wid, cur, obj, lastCall,
                       published, loop, tasks_processed, monitors, joining, workers,
                       attempts, retried, retryCalls, lastDelay,
                       sessions, page, served, waits>>

\* the rest of that call: the insert and commit of get_or_create_session and
\* then the page
get_next_page_insert(k) ==
    LET call == lookups[k]
    IN  /\ ServedPage(NewSession(sessions, call.found, call.session_id,
                                 call.endpoint, call.params, call.page_size),
                      call.session_id, call.endpoint, call.params,
                      call.page_size, "none")
        /\ lookups' = [ n \in 1..(Len(lookups) - 1) |->
                          IF n < k THEN lookups[n] ELSE lookups[n + 1] ]

\* mutant: reset_session without the is_active filter
Resettable_Inactive(st, session_id, endpoint) ==
    /\ st.session_id = session_id
    /\ endpoint # NoEndpoint => st.endpoint = endpoint

\* the rows reset_session deactivates
Resettable(st, session_id, endpoint) ==
    /\ st.session_id = session_id
    /\ st.is_active
    /\ endpoint # NoEndpoint => st.endpoint = endpoint

reset_session(session_id, endpoint) ==
    LET states == { i \in 1..Len(sessions) :
                      Resettable(sessions[i], session_id, endpoint) }
    IN  /\ sessions' = [ i \in 1..Len(sessions) |->
                           IF i \in states
                           THEN [sessions[i] EXCEPT !.is_active = FALSE,
                                                    !.last_accessed = now]
                           ELSE sessions[i] ]
        /\ page' = [NoPage EXCEPT !.op = "reset_session",
                                  !.session_id = session_id,
                                  !.endpoint = endpoint,
                                  !.count = Cardinality(states),
                                  !.result = (Cardinality(states) > 0)]
        /\ UNCHANGED <<running, notified, now, tasks, pc, wid, cur, obj, lastCall, published,
                   loop, tasks_processed, monitors, joining, workers,
                       attempts, retried, retryCalls, lastDelay, served, waits, lookups>>

\* mutant: the sweep spares sessions that were deactivated
Expired_ActiveOnly(st) == st.expires_at < now /\ st.is_active

\* filter of cleanup_expired_sessions
Expired(st) == st.expires_at < now

cleanup_expired_sessions ==
    /\ sessions' = SelectSeq(sessions, LAMBDA st : ~Expired(st))
    /\ page' = [NoPage EXCEPT !.op = "cleanup_expired_sessions",
                              !.count = Len(sessions) - Len(sessions')]
    /\ UNCHANGED <<running, notified, now, tasks, pc, wid, cur, obj, lastCall, published,
                   loop, tasks_processed, monitors, joining, workers,
                   attempts, retried, retryCalls, lastDelay, served, waits, lookups>>

\* time passes between two calls
Elapse(seconds) ==
    /\ waits < MaxWaits
    /\ waits' = waits + 1
    /\ now' = now + seconds
    /\ page' = NoPage
    /\ UNCHANGED <<running, notified, tasks, pc, wid, cur, obj, lastCall, published,
                   loop, tasks_processed, monitors, joining, workers,
                   attempts, retried, retryCalls, lastDelay, sessions, served, lookups>>

\* ------------------------------------------------------------ specifications
\* the worker threads: each repeats _process_next_task
WorkersUnder(outcomes, faults) ==
    \/ \E t \in Threads, id \in Ids : get_and_lock_task(t, id)
    \/ \E t \in Threads, o \in outcomes, f \in faults : execute_task(t, o, f)
    \/ \E t \in Threads : process_next_task_commit(t)

\* the same with a publisher that works
WorkersWith(outcomes) == WorkersUnder(outcomes, {NoFault})

\* enqueue requests of the write endpoints: retry budgets with and without a
\* rollback payload
Requests ==
    [task_type : {"create_estudiante"}, priority : {5}, max_retries : {-1},
     rollback_data : {NoData}]
    \cup [task_type : {"create_estudiante"}, priority : {5}, max_retries : {0, 1},
          rollback_data : {"create"}]

Next ==
    \/ \E r \in Requests :
          Len(tasks) < MaxTasks /\
          add_task(r.task_type, r.priority, r.max_retries, r.rollback_data)
    \/ start(NumThreads)
    \/ WorkersWith(Outcomes \ {"raise"})
    \/ \E id \in TaskIds : Cancellable(id) /\ cancel_task(id)
    \/ \E id \in TaskIds : Retryable(id) /\ retry_task(id)

Spec == Init /\ [][Next]_vars

\* the same requests and calls with an engine started with two workers
NextLifecycle ==
    \/ \E r \in Requests :
          Len(tasks) < MaxTasks /\
          add_task(r.task_type, r.priority, r.max_retries, r.rollback_data)
    \/ start(2)
    \/ WorkersWith(Outcomes \ {"raise"})
    \/ \E id \in TaskIds : Cancellable(id) /\ cancel_task(id)
    \/ \E id \in TaskIds : Retryable(id) /\ retry_task(id)

SpecLifecycle == Init /\ [][NextLifecycle]_vars

\* priority ordering: tasks of every priority, enqueued at different times
NextPrio ==
    \/ \E p \in Priorities :
          Len(tasks) < MaxQueued /\ add_task("create_estudiante", p, 0, NoData)
    \/ Tick(0)
    \/ start(1)
    \/ WorkersWith({"success"})

SpecPrio == Init /\ [][NextPrio]_vars

\* the engine constructed over a task table that already holds rows: rows of
\* every status, processing rows with a lock around the lock timeout
StoreNow == lock_timeout + 2

StoredRow(status, locked_at) ==
    [ task_type        |-> "create_estudiante",
      status           |-> status,
      priority         |-> 5,
      max_retries      |-> 0,
      retry_count      |-> 0,
      scheduled_at     |-> 0,
      started_at       |-> IF status = "processing" THEN locked_at
                           ELSE IF status \in {"completed", "failed"} THEN 1
                           ELSE NoTime,
      completed_at     |-> IF status \in {"completed", "failed", "cancelled"}
                           THEN 2 ELSE NoTime,
      locked_by        |-> IF status = "processing" THEN 1 ELSE NoWorker,
      locked_at        |-> IF status = "processing" THEN locked_at ELSE NoTime,
      error_message    |-> IF status = "failed" THEN "error" ELSE NoData,
      progress         |-> IF status = "completed" THEN 100
                           ELSE IF status = "pending" THEN 0 ELSE 10,
      result           |-> IF status = "completed" THEN "ok" ELSE NoData,
      data             |-> "payload",
      original_task_id |-> NoTask,
      rollback_data    |-> NoData,
      needs_rollback   |-> status = "failed" ]

StoredRows ==
    { StoredRow(st, NoTime) : st \in Statuses \ {"processing"} }
    \cup { StoredRow("processing", l) : l \in {StoreNow - lock_timeout - 1,
                                                 StoreNow - lock_timeout,
                                                 StoreNow - 1} }

InitStore ==
    /\ running = FALSE
    /\ notified = FALSE
    /\ now = StoreNow
    /\ tasks \in UNION { [1..n -> StoredRows] : n \in 0..MaxTasks }
    /\ pc = [t \in Threads |-> "none"]
    /\ wid = [t \in Threads |-> NoWorker]
    /\ cur = [t \in Threads |-> NoTask]
    /\ obj = [t \in Threads |-> NoRow]
    /\ lastCall = NoCall
    /\ published = [t \in Threads |-> << >>]
    /\ loop = [t \in Threads |-> "wait"]
    /\ tasks_processed = [t \in Threads |-> 0]
    /\ monitors = 0
    /\ joining = FALSE
    /\ workers = {}
    /\ attempts = [id \in DOMAIN tasks |-> 0]
    /\ retried = [id \in DOMAIN tasks |-> FALSE]
    /\ retryCalls = 0
    /\ lastDelay = [id \in DOMAIN tasks |-> 0]
    /\ InitPage

NextStore ==
    \/ \E n \in 1..2 : start(n)
    \/ WorkersWith({"raise"})
    \/ \E id \in TaskIds : cancel_task(id)
    \/ \E id \in TaskIds : retry_task(id)

SpecStore == InitStore /\ [][NextStore]_vars

\* retries and failures: one worker, a task with a large retry budget and a
\* task whose type has no processor, every processor outcome, every publisher
\* fault, a clock that advances
RetryRequests ==
    [task_type : {"create_estudiante"}, priority : {5}, max_retries : {MaxBudget},
     rollback_data : {NoData}]
    \cup [task_type : {"no_such_type"}, priority : {5}, max_retries : {1},
          rollback_data : {NoData}]

NextRetry ==
    \/ \E r \in RetryRequests :
          Len(tasks) < MaxRetryTasks /\
          add_task(r.task_type, r.priority, r.max_retries, r.rollback_data)
    \/ Tick(0)
    \/ start(1)
    \/ WorkersUnder(Outcomes, Faults)

SpecRetry == Init /\ [][NextRetry]_vars

\* the engine started over a table that holds processing rows whose locks are
\* still fresh, as a process that died has left them; then more than the lock
\* timeout passes while one worker runs
NextReclaim ==
    \/ start(1)
    \/ Elapse(lock_timeout + 1)
    \/ WorkersWith({"success"})

SpecReclaim == InitStore /\ [][NextReclaim]_vars

\* one worker thread running its loop
WorkerLoop(t, outcomes) ==
    \/ run_sync_worker_wait(t)
    \/ \E id \in Ids : run_sync_worker_claim(t, id)
    \/ \E o \in outcomes : execute_task(t, o, NoFault)
    \/ run_sync_worker_round(t)
    \/ run_sync_worker_empty(t)
    \/ run_sync_worker_signal(t)

\* one worker over a queue that fills up while it runs; the tasks have
\* add_task's default retry budget, so that the attempts the queue holds are
\* more than one sweep takes
NextLoop ==
    \/ /\ Len(tasks) < MaxLoopTasks
       /\ add_task("create_estudiante", 5, DefaultMaxRetries, NoData)
    \/ start(1)
    \/ WorkerLoop(1, {"success", "failure"})

SpecLoop == Init /\ [][NextLoop]_vars

\* one worker and the monitor while tasks are enqueued; processors succeed or
\* fail but return
NextLive ==
    \/ /\ Len(tasks) < MaxTasks
       /\ add_task("create_estudiante", 5, DefaultMaxRetries, NoData)
    \/ start(1)
    \/ WorkerLoop(1, {"success", "failure"})
    \/ task_monitor

\* the worker thread keeps running: whenever it can take a step it does.
\* Nothing is assumed of the monitor thread or of the callers of add_task.
SpecLive ==
    /\ Init
    /\ [][NextLive]_vars
    /\ WF_vars(WorkerLoop(1, {"success", "failure"}))

\* one worker whose processors succeed, return success = false or raise, over
\* tasks that may be retried once
NextErr ==
    \/ /\ Len(tasks) < MaxTasks
       /\ add_task("create_estudiante", 5, 1, NoData)
    \/ start(1)
    \/ WorkerLoop(1, Outcomes)

\* the worker thread keeps running
SpecErr ==
    /\ Init
    /\ [][NextErr]_vars
    /\ WF_vars(WorkerLoop(1, Outcomes))

\* two workers while callers cancel and retry tasks of every id, claimed or
\* not; a failed attempt puts the task back to pending once
NextCancel ==
    \/ /\ Len(tasks) < MaxTasks
       /\ add_task("create_estudiante", 5, 1, NoData)
    \/ start(2)
    \/ WorkersWith({"success", "failure"})
    \/ \E id \in TaskIds : cancel_task(id)
    \/ \E id \in TaskIds : retry_task(id)

SpecCancel == Init /\ [][NextCancel]_vars

\* the workers over a table with room for the rollback tasks
WorkersWithin(outcomes, max_rows) ==
    \/ \E t \in Threads, id \in Ids : get_and_lock_task(t, id)
    \/ \E t \in Threads, o \in outcomes : execute_task_within(t, o, NoFault, max_rows)
    \/ \E t \in Threads : process_next_task_commit(t)

\* a task with a rollback payload and no retry budget, one worker, and a
\* caller that retries the task after it failed
NextRollback ==
    \/ /\ Len(tasks) < MaxRetryTasks
       /\ add_task("create_estudiante", 5, 0, "create")
    \/ start(1)
    \/ WorkersWithin({"success", "failure"}, MaxRows)
    \/ \E id \in TaskIds : Retryable(id) /\ retry_task(id)

SpecRollback == Init /\ [][NextRollback]_vars

\* the same task with two workers and no caller besides the enqueue
NextRace ==
    \/ /\ Len(tasks) < MaxRetryTasks
       /\ add_task("create_estudiante", 5, 0, "create")
    \/ start(2)
    \/ WorkersWith({"success", "failure"})

SpecRace == Init /\ [][NextRace]_vars

\* one worker started over a table that already holds rows of every status,
\* while tasks are enqueued, cancelled and retried
NextLock ==
    \/ /\ Len(tasks) < MaxTasks
       /\ add_task("create_estudiante", 5, 1, NoData)
    \/ start(1)
    \/ WorkersWith({"success", "failure"})
    \/ \E id \in TaskIds : Cancellable(id) /\ cancel_task(id)
    \/ \E id \in TaskIds : Retryable(id) /\ retry_task(id)

SpecLock == InitStore /\ [][NextLock]_vars

\* one worker thread of an engine that may be stopped
WorkerPool(t, outcomes) ==
    \/ run_sync_worker_wait(t)
    \/ run_sync_worker_test(t)
    \/ \E id \in Ids : run_sync_worker_call(t, id)
    \/ run_sync_worker_none(t)
    \/ \E o \in outcomes : execute_task(t, o, NoFault)
    \/ run_sync_worker_round(t)
    \/ run_sync_worker_signal(t)
    \/ run_sync_worker_exit(t)

\* an engine that its owner starts with one worker, stops and starts again,
\* one call at a time, while tasks are enqueued
NextPool ==
    \/ /\ Len(tasks) < MaxTasks
       /\ add_task("create_estudiante", 5, 0, NoData)
    \/ ~joining /\ monitors < MaxMonitors /\ start(1)
    \/ ~joining /\ stop
    \/ stop_join
    \/ \E t \in Threads : WorkerPool(t, {"success"})
    \/ task_monitor
    \/ task_monitor_exit

SpecPool == Init /\ [][NextPool]_vars

\* the filters a list endpoint passes as query_params
Filter(carrera_codigo) ==
    <<Item("carrera_codigo", carrera_codigo), Item("search", "null")>>

\* an hour, and an hour more than the lifetime of a session
Jumps == {Hour, session_ttl_hours * Hour + Hour}

\* two clients page through one list with the same filter; an hour, or more
\* than the lifetime of a session, may pass between calls
NextPage ==
    \/ \E session_id \in SessionIds :
          get_next_page(session_id, "estudiantes_list", Filter("INF"), PageSize,
                        "none")
    \/ \E seconds \in Jumps : Elapse(seconds)

SpecPage == Init /\ [][NextPage]_vars

\* one client pages through one list, sessions of any client and list are
\* reset, expired sessions are swept, and more than the lifetime of a session
\* may pass between calls
NextExpiry ==
    \/ get_next_page("A", "estudiantes_list", Filter("INF"), PageSize, "none")
    \/ \E session_id \in SessionIds, endpoint \in Endpoints \cup {NoEndpoint} :
          reset_session(session_id, endpoint)
    \/ cleanup_expired_sessions
    \/ Elapse(session_ttl_hours * Hour + Hour)

SpecExpiry == Init /\ [][NextExpiry]_vars

\* one client pages with and without a page size while the session lookup
\* and the query function may fail
NextFail ==
    \E session_id \in SessionIds, page_size \in {PageSize, NoSize},
       fail \in Failures :
          get_next_page(session_id, "estudiantes_list", Filter("INF"), page_size,
                        fail)

SpecFail == Init /\ [][NextFail]_vars

\* one client pages through one list with query_params that differ in their
\* filters, in the order of their keys, or only in pagination keys
HashParams ==
    { Filter("INF"),
      Filter("SIS"),
      <<Item("carrera_codigo", "INF")>>,
      <<Item("page", "2"), Item("search", "null"), Item("carrera_codigo", "INF")>>,
      <<Item("carrera_codigo", "INF"), Item("search", "null"), Item("limit", "50")>> }

NextHash ==
    \E params \in HashParams :
        get_next_page("A", "estudiantes_list", params, PageSize, "none")

SpecHash == Init /\ [][NextHash]_vars

\* two clients page through one list with the same filter, each with calls
\* that may overlap; more than the lifetime of a session may pass
NextSession ==
    \/ \E session_id \in SessionIds :
          get_next_page(session_id, "estudiantes_list", Filter("INF"), PageSize,
                        "none")
    \/ \E session_id \in SessionIds :
          get_or_create_session_lookup(session_id, "estudiantes_list",
                                       Filter("INF"), PageSize)
    \/ \E k \in 1..Len(lookups) : get_next_page_insert(k)
    \/ Elapse(session_ttl_hours * Hour + Hour)

SpecSession == Init /\ [][NextSession]_vars

\* ------------------------------------------------------------ claims
\* C1: mutual exclusion.  No two worker threads hold the same task at the same
\* time: a task that one worker has claimed (status processing in its
\* transaction, processor running or result not yet committed) is held by that
\* worker alone, and every thread that holds a task sees it claimed in its
\* own name or already finished by itself.
C1_MutualExclusion ==
    /\ \A t1 \in Threads, t2 \in Threads :
          (t1 # t2 /\ cur[t1] # NoTask) => cur[t1] # cur[t2]
    /\ \A t \in Threads :
          pc[t] = "exec" => (obj[t].status = "processing" /\ obj[t].locked_by = wid[t])

\* two workers execute at once, each its own task, while the committed table
\* still shows both tasks pending
C1_Witness ==
    \E t1 \in Threads, t2 \in Threads :
        /\ t1 # t2
        /\ pc[t1] = "exec" /\ pc[t2] = "exec"
        /\ cur[t1] # cur[t2]
        /\ tasks[cur[t1]].status = "pending"
        /\ tasks[cur[t2]].status = "pending"

\* C2: priority ordering.  Every claim takes, among the pending tasks no other
\* transaction holds, one with the smallest priority value and, among those,
\* one with the oldest scheduled_at.
C2_PriorityOrder ==
    [][ \A t \in Threads :
          (pc[t] = "idle" /\ pc'[t] = "exec") =>
             \A j \in Ids :
                (tasks[j].status = "pending" /\ \A u \in Threads : cur[u] # j) =>
                   \/ tasks[cur'[t]].priority < tasks[j].priority
                   \/ /\ tasks[cur'[t]].priority = tasks[j].priority
                      /\ tasks[cur'[t]].scheduled_at <= tasks[j].scheduled_at ]_vars

\* tasks enqueued with priorities 5, 1, 3: the task of priority 1 was served
\* first, the task of priority 3 is being served, priority 5 still waits
C2_Witness ==
    /\ Len(tasks) = 3
    /\ tasks[1].priority = 5 /\ tasks[2].priority = 1 /\ tasks[3].priority = 3
    /\ tasks[1].scheduled_at <= tasks[2].scheduled_at
    /\ tasks[2].status = "completed"
    /\ \E t \in Threads : cur[t] = 3
    /\ tasks[1].status = "pending" /\ attempts[1] = 0

\* C3: retry bound.  A task with max_retries = N >= 0 that was never manually
\* retried is executed at most N+1 times; when it is failed it was executed
\* exactly N+1 times; and after N+1 executions it is failed unless an
\* execution succeeded or it was cancelled.
C3_RetryBound ==
    \A id \in Ids :
        (tasks[id].max_retries >= 0 /\ ~retried[id]) =>
            /\ attempts[id] <= tasks[id].max_retries + 1
            /\ View(id).status = "failed" => attempts[id] = tasks[id].max_retries + 1
            /\ (attempts[id] = tasks[id].max_retries + 1
                  /\ View(id).status \notin {"completed", "cancelled"})
                 => View(id).status = "failed"

\* a task with a retry budget of at least 1 failed for good after N+1 runs
C3_Witness ==
    \E id \in Ids :
        /\ tasks[id].max_retries >= 1
        /\ ~retried[id]
        /\ tasks[id].status = "failed"
        /\ attempts[id] = tasks[id].max_retries + 1

\* C4: retry_count <= max_retries for every task, in the committed table and
\* in every worker's transaction.
C4_RetryCountWithinBudget ==
    /\ \A id \in Ids : tasks[id].retry_count <= tasks[id].max_retries
    /\ \A t \in Threads : cur[t] # NoTask => obj[t].retry_count <= obj[t].max_retries

\* C5: rollback trigger.  Failure handling that ends in status failed on a
\* task with a rollback payload inserts exactly one row: a pending
\* rollback_operation task of priority 1 whose payload is the rollback payload
\* with original_task_id = the failed task's id; any other outcome of an
\* execution inserts no row.
C5_RollbackTrigger ==
    [][ \A t \in Threads :
          (pc[t] = "exec" /\ pc'[t] = "commit") =>
             IF obj'[t].status = "failed" /\ obj[t].rollback_data # NoData
             THEN /\ Len(tasks') = Len(tasks) + 1
                  /\ \A id \in Ids : tasks'[id] = tasks[id]
                  /\ tasks'[Len(tasks')].task_type = "rollback_operation"
                  /\ tasks'[Len(tasks')].status = "pending"
                  /\ tasks'[Len(tasks')].priority = 1
                  /\ tasks'[Len(tasks')].data = obj[t].rollback_data
                  /\ tasks'[Len(tasks')].original_task_id = cur[t]
                  /\ tasks'[Len(tasks')].rollback_data = NoData
             ELSE Len(tasks') = Len(tasks) ]_vars

\* a task with a rollback payload and a budget of 1 failed twice, and its
\* rollback task is queued
C5_Witness ==
    \E id \in Ids, r \in Ids :
        /\ View(id).status = "failed"
        /\ View(id).retry_count = 1
        /\ tasks[r].task_type = "rollback_operation"
        /\ tasks[r].original_task_id = id
        /\ tasks[r].status = "pending"

\* C6: once every rollback task spawned for a task T has completed and the
\* transaction that failed T has committed, T shows needs_rollback = false.
C6_RollbackClearsFlag ==
    \A r \in Ids :
        LET orig == tasks[r].original_task_id IN
        ( /\ tasks[r].task_type = "rollback_operation"
          /\ tasks[r].status = "completed"
          /\ orig \in Ids
          /\ ~RowLocked(orig)
          /\ \A q \in Ids : tasks[q].original_task_id = orig
                              => tasks[q].status = "completed" )
        => ~tasks[orig].needs_rollback

\* C7: orphan recovery.  A start() of a stopped engine resets every task in
\* status processing whose locked_at is more than the lock timeout old to
\* pending with locked_by, locked_at and started_at cleared, leaves every
\* other row as it is, and only then starts the workers: none of them holds
\* a task when start() returns.
C7_OrphanSweep ==
    [][ (lastCall'.op = "start" /\ lastCall'.result) =>
          /\ Len(tasks') = Len(tasks)
          /\ \A id \in Ids :
                IF tasks[id].status = "processing"
                     /\ tasks[id].locked_at # NoTime
                     /\ now - tasks[id].locked_at > lock_timeout
                THEN tasks'[id] = [tasks[id] EXCEPT !.status = "pending",
                                                    !.locked_by = NoWorker,
                                                    !.locked_at = NoTime,
                                                    !.started_at = NoTime]
                ELSE tasks'[id] = tasks[id]
          /\ \A t \in Threads : pc[t] = "none" /\ cur'[t] = NoTask
          /\ \E t \in Threads : pc'[t] = "idle" ]_vars

\* start() has just recovered an orphan and left a younger processing row
C7_Witness ==
    /\ lastCall.op = "start" /\ lastCall.result
    /\ \E id \in Ids : tasks[id].status = "pending" /\ tasks[id].progress = 10
                         /\ tasks[id].locked_by = NoWorker
    /\ \E id \in Ids : tasks[id].status = "processing"

\* C8: task lifecycle.  The status of a task (as its lock holder sees it, else
\* as committed) changes only along the listed edges; only retry_task moves
\* a failed task, only cancel_task cancels, completed and cancelled are final.
LifecycleEdges ==
    { <<"pending", "processing">>, <<"processing", "completed">>,
      <<"processing", "failed">>, <<"processing", "pending">>,
      <<"pending", "cancelled">>, <<"processing", "cancelled">>,
      <<"failed", "pending">> }

C8_Lifecycle ==
    [][ \A id \in Ids :
          LET a == View(id).status
              b == View(id)'.status
          IN  a # b =>
                /\ <<a, b>> \in LifecycleEdges
                /\ a = "failed" =>
                      (lastCall'.op = "retry_task" /\ lastCall'.task_id = id)
                /\ b = "cancelled" =>
                      (lastCall'.op = "cancel_task" /\ lastCall'.task_id = id) ]_vars

\* a failed task was retried by hand, failed again, and another was cancelled
C8_Witness ==
    \E id \in Ids, c \in Ids :
        /\ retried[id]
        /\ tasks[id].status = "failed"
        /\ attempts[id] >= 2
        /\ tasks[c].status = "cancelled"

\* C9: cancel_task.  The call returns true exactly when the task exists with
\* status pending or processing, and then only that row changes: status
\* cancelled, completed_at = now, lock cleared; otherwise it returns false and
\* the table is unchanged.
C9_CancelTask ==
    [][ lastCall'.op = "cancel_task" =>
          LET id == lastCall'.task_id IN
          IF id \in Ids /\ tasks[id].status \in {"pending", "processing"}
          THEN /\ lastCall'.result
               /\ tasks' = [tasks EXCEPT ![id] =
                              [tasks[id] EXCEPT !.status = "cancelled",
                                                !.completed_at = now,
                                                !.locked_by = NoWorker,
                                                !.locked_at = NoTime]]
          ELSE /\ ~lastCall'.result
               /\ tasks' = tasks ]_vars

\* a processing row has just been cancelled
C9_Witness ==
    /\ lastCall.op = "cancel_task" /\ lastCall.result
    /\ tasks[lastCall.task_id].status = "cancelled"
    /\ tasks[lastCall.task_id].progress = 10
    /\ tasks[lastCall.task_id].completed_at = now
    /\ tasks[lastCall.task_id].locked_by = NoWorker

\* C10: retry_task.  The call returns true exactly when the task exists with
\* status failed, and then only that row changes: status pending,
\* error_message, lock, started_at and completed_at cleared, and the wake
\* signal is raised; otherwise it returns false and the table and the wake
\* signal are unchanged.
C10_RetryTask ==
    [][ lastCall'.op = "retry_task" =>
          LET id == lastCall'.task_id IN
          IF id \in Ids /\ tasks[id].status = "failed"
          THEN /\ lastCall'.result
               /\ tasks' = [tasks EXCEPT ![id] =
                              [tasks[id] EXCEPT !.status = "pending",
                                                !.error_message = NoData,
                                                !.locked_by = NoWorker,
                                                !.locked_at = NoTime,
                                                !.started_at = NoTime,
                                                !.completed_at = NoTime]]
               /\ notified'
          ELSE /\ ~lastCall'.result
               /\ tasks' = tasks
               /\ notified' = notified ]_vars

\* a failed row has just been requeued while the wake signal was raised by it
C10_Witness ==
    /\ lastCall.op = "retry_task" /\ lastCall.result
    /\ notified
    /\ tasks[lastCall.task_id].status = "pending"
    /\ tasks[lastCall.task_id].needs_rollback
    /\ tasks[lastCall.task_id].error_message = NoData
    /\ tasks[lastCall.task_id].started_at = NoTime

\* C11: backoff.  Whenever failure handling reschedules a task, the new
\* scheduled_at is now + min(30 * 2^retry_count, 300) seconds, retry_count
\* being the count the retry leaves on the task; the delay is at least the
\* delay of the task's previous retry and at most 300 seconds.
C11_Backoff ==
    [][ \A t \in Threads :
          (pc[t] = "exec" /\ pc'[t] = "commit" /\ obj'[t].status = "pending") =>
             LET delay == obj'[t].scheduled_at - now
                 exp   == 30 * 2^(obj'[t].retry_count)
             IN  /\ delay = IF exp < 300 THEN exp ELSE 300
                 /\ delay >= lastDelay[cur[t]]
                 /\ delay <= 300
                 /\ lastDelay'[cur[t]] = delay ]_vars

\* a task was rescheduled a fourth time: after 60, 120 and 240 seconds the
\* delay is capped at 300
C11_Witness ==
    \E id \in Ids :
        /\ tasks[id].status = "pending"
        /\ tasks[id].retry_count = 4
        /\ lastDelay[id] = 300
        /\ tasks[id].scheduled_at = now + 300

\* C12: unknown task type.  add_task with a type that has no processor
\* inserts a pending task and returns its id; when a worker executes such a
\* task the processor outcome plays no part: the task is retried (pending,
\* retry_count + 1) while retry_count < max_retries and failed otherwise, the
\* worker commits that row, goes back to idle and the engine keeps running.
C12_UnknownType ==
    [][ /\ (lastCall'.op = "add_task" /\ Len(tasks') = Len(tasks) + 1
              /\ tasks'[Len(tasks')].task_type = "no_such_type") =>
             /\ tasks'[Len(tasks')].status = "pending"
             /\ tasks'[Len(tasks')].retry_count = 0
             /\ lastCall'.result
             /\ lastCall'.task_id = Len(tasks')
             /\ SubSeq(tasks', 1, Len(tasks)) = tasks
        /\ \A t \in Threads :
             /\ (pc[t] = "exec" /\ pc'[t] = "commit"
                   /\ obj[t].task_type = "no_such_type") =>
                  /\ obj'[t].locked_by = NoWorker
                  /\ obj'[t].progress = obj[t].progress
                  /\ IF obj[t].retry_count < obj[t].max_retries
                     THEN /\ obj'[t].status = "pending"
                          /\ obj'[t].retry_count = obj[t].retry_count + 1
                     ELSE /\ obj'[t].status = "failed"
                          /\ obj'[t].retry_count = obj[t].retry_count
             /\ (pc[t] = "commit" /\ pc'[t] = "idle"
                   /\ obj[t].task_type = "no_such_type") =>
                  /\ tasks'[cur[t]] = obj[t]
                  /\ running' /\ wid'[t] = wid[t] ]_vars

\* a task of an unknown type was executed twice, retried once and failed, and
\* its worker is idle in a running engine
C12_Witness ==
    \E id \in Ids :
        /\ tasks[id].task_type = "no_such_type"
        /\ tasks[id].status = "failed"
        /\ tasks[id].retry_count = 1
        /\ attempts[id] = 2
        /\ running
        /\ \E t \in Threads : wid[t] # NoWorker /\ pc[t] = "idle"

\* C13: publisher failure.  When a publish or history-store call of the
\* monitor raises during task_started, task_completed or task_failed, the
\* attempt leaves the task exactly as the same attempt with a working
\* publisher does: same status, same retry_count, same row.
C13_PublisherFailure ==
    [][ \A t \in Threads :
          (pc[t] = "exec" /\ pc'[t] = "commit" /\ lastCall'.op = "execute") =>
             LET ok == ExecutedRow(obj[t], lastCall'.outcome, NoFault)
             IN  /\ lastCall'.fault \in Faults \ {NoFault, MonitorOff}
                 /\ obj'[t].status = ok.status
                 /\ obj'[t].retry_count = ok.retry_count
                 /\ obj'[t] = ok ]_vars

\* the publish call raised on task_started, the processor ran all the same
\* and the task is completed without a retry
C13_Witness ==
    \E t \in Threads :
        /\ pc[t] = "commit"
        /\ lastCall.op = "execute"
        /\ lastCall.task_id = cur[t]
        /\ lastCall.fault = [event |-> "task_started", call |-> "publish"]
        /\ lastCall.outcome = "success"
        /\ obj[t].status = "completed"
        /\ obj[t].progress = 100
        /\ obj[t].retry_count = 0

\* C14: pagination continuity.  The k-th get_next_page call served from one
\* pagination session over the stable data set returns rows (k-1)*P+1 .. k*P
\* of it, clipped to the last row, P being the session's page size; with 25
\* rows and P = 10 has_more_pages is true on the first two calls and false on
\* the third.
C14_Continuity ==
    [][ page'.op = "get_next_page" =>
          LET k == served'[page'.row]
              P == page'.items_per_page
          IN  /\ page'.items = SubSeq(Rows, (k - 1) * P + 1, Min(k * P, DataRows))
              /\ (DataRows = 25 /\ P = 10) => (page'.has_more_pages <=> k < 3) ]_vars

\* the stored cursor of a pagination session
Cursor(st) == <<st.returned_items, st.current_page, st.is_active>>

\* C15: session isolation.  A get_next_page call made with one session_id is
\* served from a pagination session of that session_id, at the offset that
\* session has stored, and leaves the stored cursor (returned ids,
\* current_page, is_active) and the page count of every session with another
\* session_id as they were, for the same endpoint and the same query_params.
C15_Isolation ==
    [][ page'.op = "get_next_page" =>
          /\ \E i \in 1..Len(sessions') :
                /\ sessions'[i].id = page'.row
                /\ sessions'[i].session_id = page'.session_id
                /\ sessions'[i].endpoint = page'.endpoint
                /\ sessions'[i].query_hash = page'.query_hash
                /\ page'.created \/ page'.offset = Len(sessions[i].returned_items)
          /\ \A i \in 1..Len(sessions) :
                sessions[i].session_id # page'.session_id =>
                   /\ i <= Len(sessions')
                   /\ sessions'[i].id = sessions[i].id
                   /\ Cursor(sessions'[i]) = Cursor(sessions[i])
                   /\ served'[sessions[i].id] = served[sessions[i].id] ]_vars

\* client A was served a page while client B holds an active session for the
\* same endpoint and filter from which a page was served before
C15_Witness ==
    /\ page.op = "get_next_page"
    /\ page.session_id = "A"
    /\ ~page.created
    /\ \E i, j \in 1..Len(sessions) :
          /\ sessions[i].session_id = "A" /\ sessions[i].id = page.row
          /\ sessions[j].session_id = "B" /\ sessions[j].is_active
          /\ sessions[j].endpoint = sessions[i].endpoint
          /\ sessions[j].query_hash = sessions[i].query_hash
          /\ served[sessions[j].id] >= 1
          /\ served[sessions[i].id] >= 2

\* C16: idempotent reset.  reset_session(session_id, endpoint) sets is_active
\* to false on every active session of that session_id (and of that endpoint,
\* when one is given), leaves every other row as it is, deletes no row and
\* returns true iff at least one session matched; the same call made again
\* right after it changes nothing and returns false; the next get_next_page
\* call for a triple it covered creates a new session and serves the first
\* page from offset 0.
C16_Reset ==
    [][ /\ page'.op = "reset_session" =>
             LET matched == { i \in 1..Len(sessions) :
                                /\ sessions[i].session_id = page'.session_id
                                /\ sessions[i].is_active
                                /\ \/ page'.endpoint = NoEndpoint
                                   \/ sessions[i].endpoint = page'.endpoint }
             IN  /\ Len(sessions') = Len(sessions)
                 /\ \A i \in 1..Len(sessions) :
                       /\ sessions'[i].id = sessions[i].id
                       /\ i \in matched => ~sessions'[i].is_active
                       /\ i \notin matched => sessions'[i] = sessions[i]
                       /\ sessions'[i].returned_items = sessions[i].returned_items
                       /\ sessions'[i].current_page = sessions[i].current_page
                 /\ page'.result <=> matched # {}
                 /\ page'.count = Cardinality(matched)
        /\ (page.op = "reset_session" /\ page'.op = "reset_session"
              /\ page'.session_id = page.session_id
              /\ page'.endpoint = page.endpoint) =>
             (~page'.result /\ sessions' = sessions)
        /\ (page.op = "reset_session" /\ page'.op = "get_next_page"
              /\ page'.session_id = page.session_id
              /\ page.endpoint \in {NoEndpoint, page'.endpoint}) =>
             /\ page'.created
             /\ page'.offset = 0
             /\ page'.items = query_function(0, page'.items_per_page)
             /\ Len(sessions') = Len(sessions) + 1 ]_vars

\* a session from which a page was served was reset before it expired, and
\* the next call for its triple has just been served from a new session
C16_Witness ==
    /\ page.op = "get_next_page"
    /\ page.created
    /\ page.offset = 0
    /\ \E i, j \in 1..Len(sessions) :
          /\ sessions[j].id = page.row /\ sessions[j].is_active
          /\ sessions[i].session_id = sessions[j].session_id
          /\ sessions[i].endpoint = sessions[j].endpoint
          /\ sessions[i].query_hash = sessions[j].query_hash
          /\ ~sessions[i].is_active
          /\ sessions[i].expires_at > now
          /\ served[sessions[i].id] >= 1

\* C17: expiry.  A get_next_page call is never served from a session whose
\* expires_at is in the past: when the active session of its triple has
\* expired the call sets that session's is_active to false, and when there is
\* no active session of its triple (cleanup_expired_sessions deleted it, or
\* there never was one) it changes no existing cursor; in both cases it
\* creates a session that expires session_ttl_hours later, serves the first
\* page from offset 0 and reports page 1.  cleanup_expired_sessions deletes
\* exactly the sessions whose expires_at is in the past.
C17_Expiry ==
    [][ /\ page'.op = "get_next_page" =>
             LET active == { i \in 1..Len(sessions) :
                               /\ sessions[i].session_id = page'.session_id
                               /\ sessions[i].endpoint = page'.endpoint
                               /\ sessions[i].query_hash = page'.query_hash
                               /\ sessions[i].is_active }
                 live == { i \in active : sessions[i].expires_at >= now }
             IN  /\ \A i \in 1..Len(sessions) :
                       sessions[i].id = page'.row => i \in live
                 /\ live = {} =>
                       /\ \A i \in active : ~sessions'[i].is_active
                       /\ page'.created
                       /\ page'.offset = 0
                       /\ page'.current_page = 1
                       /\ page'.items = query_function(0, page'.items_per_page)
                       /\ Len(sessions') = Len(sessions) + 1
                       /\ LET new_state == sessions'[Len(sessions')]
                          IN  /\ new_state.id = page'.row
                              /\ new_state.is_active
                              /\ new_state.returned_items = << >>
                              /\ new_state.expires_at = now + 24 * 3600
        /\ page'.op = "cleanup_expired_sessions" =>
             /\ sessions' = SelectSeq(sessions, LAMBDA st : st.expires_at >= now)
             /\ page'.count = Len(sessions) - Len(sessions') ]_vars

\* the session of a triple expired after a page had been served from it; the
\* next call for the triple deactivated it and was served from a new session
C17_Witness ==
    /\ page.op = "get_next_page"
    /\ page.created
    /\ page.offset = 0
    /\ page.current_page = 1
    /\ \E i, j \in 1..Len(sessions) :
          /\ sessions[j].id = page.row /\ sessions[j].is_active
          /\ sessions[j].expires_at > now
          /\ sessions[i].session_id = sessions[j].session_id
          /\ sessions[i].endpoint = sessions[j].endpoint
          /\ sessions[i].query_hash = sessions[j].query_hash
          /\ ~sessions[i].is_active
          /\ sessions[i].expires_at < now
          /\ sessions[i].last_accessed < sessions[i].expires_at
          /\ served[sessions[i].id] >= 1

\* C18: get_next_page never raises.  When nothing fails it returns a page
\* without an error field.  When the session lookup or the query function
\* fails it returns the rows of one query at offset 0 with limit page_size
\* (20 when no page_size was passed), with the error field set, page 1 and
\* has_more_pages false.  When the query of the fallback fails too it returns
\* an empty list with the error field set and every count zero.
C18_NeverRaises ==
    [][ page'.op = "get_next_page" =>
          LET limit == IF page'.page_size = NoSize THEN 20 ELSE page'.page_size
              upto  == IF limit < DataRows THEN limit ELSE DataRows
          IN  /\ ~page'.raised
              /\ page'.fail = "none" => page'.error = "none"
              /\ page'.fail \in {"lookup", "query"} =>
                    /\ page'.items = [n \in 1..upto |-> n]
                    /\ page'.error = "fallback"
                    /\ page'.current_page = 1
                    /\ page'.items_in_page = upto
                    /\ page'.total_items_available = upto
                    /\ ~page'.has_more_pages
              /\ page'.fail \in {"lookup_fallback", "query_fallback"} =>
                    /\ page'.items = << >>
                    /\ page'.error = "critical"
                    /\ page'.current_page = 0
                    /\ page'.items_per_page = 0
                    /\ page'.items_in_page = 0
                    /\ page'.total_items_returned = 0
                    /\ page'.total_items_available = 0
                    /\ ~page'.has_more_pages
              /\ page'.fail \in {"lookup", "lookup_fallback"} =>
                    sessions' = sessions ]_vars

\* the query function failed on the second page of a session and worked in
\* the fallback: the caller got the first page again, marked as degraded
C18_Witness ==
    /\ page.op = "get_next_page"
    /\ page.fail = "query"
    /\ ~page.created
    /\ page.error = "fallback"
    /\ page.items = query_function(0, PageSize)
    /\ ~page.has_more_pages
    /\ \E i \in 1..Len(sessions) :
          sessions[i].id = page.row /\ served[page.row] >= 1

\* query_params as a dict without its pagination keys
Filters(params) ==
    { params[n] : n \in { m \in 1..Len(params) :
                            params[m].k \notin {"page", "limit", "session_id",
                                                "page_size"} } }

\* C19: query fingerprint.  For one session_id and endpoint, a get_next_page
\* call resolves to the active pagination session created by a call whose
\* query_params, without the pagination keys and whatever the order of the
\* keys, were the same, and to no session created with other filters: it
\* creates a session only when no such session exists.
C19_Fingerprint ==
    [][ page'.op = "get_next_page" =>
          /\ \E i \in 1..Len(sessions') :
                /\ sessions'[i].id = page'.row
                /\ Filters(sessions'[i].query_params) = Filters(page'.query_params)
          /\ \A i \in 1..Len(sessions) :
                (/\ sessions[i].session_id = page'.session_id
                 /\ sessions[i].endpoint = page'.endpoint
                 /\ sessions[i].is_active) =>
                   (Filters(sessions[i].query_params) = Filters(page'.query_params)
                      <=> sessions[i].id = page'.row) ]_vars

\* a call whose query_params carry a pagination key and list the keys in
\* another order was served from the session an earlier call had created,
\* while a session with another filter exists
C19_Witness ==
    /\ page.op = "get_next_page"
    /\ ~page.created
    /\ page.error = "none"
    /\ \E i, j \in 1..Len(sessions) :
          /\ sessions[i].id = page.row
          /\ sessions[i].query_params # page.query_params
          /\ Len(sessions[i].query_params) # Len(page.query_params)
          /\ sessions[j].session_id = sessions[i].session_id
          /\ sessions[j].endpoint = sessions[i].endpoint
          /\ sessions[j].is_active
          /\ sessions[j].query_hash # sessions[i].query_hash

C21_NeedsRollback ==
    \A id \in Ids :
        tasks[id].needs_rollback =>
            /\ tasks[id].rollback_data # NoData
            /\ tasks[id].status = "failed" \/ retried[id]

\* the fields the success branch of _execute_task leaves on a row
CompletedShape(t) ==
    /\ t.progress = 100
    /\ t.result # NoData
    /\ t.completed_at # NoTime
    /\ t.locked_by = NoWorker
    /\ t.locked_at = NoTime

\* C22: completion.  Every completed task, committed or still in its
\* worker's transaction, has progress 100, a stored result, completed_at set
\* and no lock; and an attempt leaves its task completed exactly when the
\* processor was found and returned success = true.
C22_Completion ==
    /\ \A id \in Ids : tasks[id].status = "completed" => CompletedShape(tasks[id])
    /\ \A t \in Threads :
          /\ (cur[t] # NoTask /\ obj[t].status = "completed")
                => CompletedShape(obj[t])
          /\ pc[t] = "exec" =>
                \A outcome \in Outcomes :
                    ExecutedRow(obj[t], outcome, NoFault).status = "completed"
                        <=> AttemptResult(obj[t], outcome) = "success"

\* a task committed as completed after one successful attempt
C22_Witness ==
    \E id \in Ids :
        /\ tasks[id].status = "completed"
        /\ attempts[id] = 1
        /\ tasks[id].progress = 100
        /\ tasks[id].locked_by = NoWorker

\* how often an event occurs among the events of one attempt
Count(events, e) == Cardinality({ n \in 1..Len(events) : events[n] = e })

\* C23: event ordering.  Each attempt hands task_started to the monitor first
\* and before the processor is invoked, then exactly one closing event, which
\* is the last one: task_completed iff the attempt set the status completed,
\* task_failed iff it went through failure handling (which leaves the task
\* pending or failed).
C23_EventOrder ==
    \A t \in Threads :
        pc[t] = "commit" =>
            LET events == published[t] IN
            /\ Len(events) >= 2
            /\ events[1] = "task_started"
            /\ Count(events, "task_started") = 1
            /\ Count(events, "processor") <= 1
            /\ Count(events, "processor") = 1 => events[2] = "processor"
            /\ Count(events, "task_completed") + Count(events, "task_failed") = 1
            /\ events[Len(events)] \in {"task_completed", "task_failed"}
            /\ Count(events, "task_completed") = 1 <=> obj[t].status = "completed"
            /\ Count(events, "task_failed") = 1
                  <=> /\ obj[t].status \in {"pending", "failed"}
                      /\ obj[t].error_message # NoData
                      /\ obj[t].locked_by = NoWorker

\* an attempt on a task of an unknown type: task_started, no processor call,
\* task_failed, and the task rescheduled
C23_Witness ==
    \E t \in Threads :
        /\ pc[t] = "commit"
        /\ published[t] = <<"task_started", "task_failed">>
        /\ obj[t].status = "pending"
        /\ obj[t].retry_count = 1

\* C24: worker loop.  A worker claims only inside a sweep that has made fewer
\* than 10 rounds, so a sweep has at most 10 rounds; when the sweep is over
\* the worker sets the wake signal if it processed at least one task and
\* clears it if it processed none, and is waiting again.
C24_WorkerLoop ==
    [][\A t \in Threads :
          /\ tasks_processed[t] <= BatchCap
          /\ (cur[t] = NoTask /\ cur'[t] # NoTask)
                => loop[t] = "sweep" /\ tasks_processed[t] < BatchCap
          /\ (loop[t] = "sweep" /\ loop'[t] # "sweep")
                => /\ pc[t] \in {"idle", "commit"}
                   /\ loop'[t] = IF tasks_processed'[t] > 0 THEN "raise"
                                 ELSE "clear"
          /\ (loop[t] \in {"raise", "clear"} /\ loop'[t] # loop[t])
                => /\ loop'[t] = "wait"
                   /\ notified' = (tasks_processed[t] > 0)
      ]_vars

\* a sweep cut short by the cap: ten rounds made, a pending task left, and
\* the signal about to be raised
C24_Witness ==
    \E t \in Threads :
        /\ loop[t] = "raise"
        /\ tasks_processed[t] = BatchCap
        /\ \E id \in Ids : tasks[id].status = "pending"

\* C25: no lost work.  While the engine runs with a worker, every pending
\* task is eventually claimed, whether or not the wake signal of its add_task
\* survived.
C25_NoLostWork ==
    \A id \in TaskIds :
        (running /\ id \in Ids /\ tasks[id].status = "pending")
            ~> (\E t \in Threads : cur[t] = id)

\* the worker found the queue empty, add_task then enqueued a task and raised
\* the signal, and the worker is about to clear it
C25_Witness ==
    /\ running
    /\ \E t \in Threads : loop[t] = "clear" /\ pc[t] = "idle"
    /\ notified
    /\ lastCall.op = "add_task"
    /\ \E id \in Ids : tasks[id].status = "pending" /\ attempts[id] = 0

\* an attempt of thread t that ended in failure handling
FailedAttempt(t) == pc[t] = "commit" /\ obj[t].status \in {"pending", "failed"}

\* C26: processor errors.  An attempt whose processor raised or returned
\* success = false leaves the task without lock, with an error_message, and
\* either pending with one more retry counted or failed with completed_at
\* set; the worker's call returns to its sweep as for any processed task, and
\* the same worker claims again unless no pending task is left.
C26_ProcessorError ==
    /\ [][\A t \in Threads :
            /\ (pc[t] = "exec" /\ pc'[t] # "exec" /\ obj'[t].status # "completed")
                  => /\ pc'[t] = "commit"
                     /\ obj'[t].locked_by = NoWorker
                     /\ obj'[t].locked_at = NoTime
                     /\ obj'[t].error_message # NoData
                     /\ \/ /\ obj'[t].status = "pending"
                           /\ obj'[t].retry_count = obj[t].retry_count + 1
                        \/ /\ obj'[t].status = "failed"
                           /\ obj'[t].completed_at = now
                           /\ obj'[t].retry_count = obj[t].retry_count
            /\ (FailedAttempt(t) /\ pc'[t] # "commit")
                  => /\ pc'[t] = "idle"
                     /\ tasks'[cur[t]] = obj[t]
                     /\ tasks_processed'[t] = tasks_processed[t] + 1
                     /\ loop'[t] \in {"sweep", "raise"}
                     /\ running'
        ]_vars
    /\ \A t \in Threads :
          FailedAttempt(t)
              ~> \/ pc[t] = "exec"
                 \/ \A id \in Ids : tasks[id].status # "pending"

\* the worker that ran a task into its terminal failure has claimed the next
\* task in the same sweep
C26_Witness ==
    \E t \in Threads, id \in Ids :
        /\ tasks[id].status = "failed"
        /\ tasks[id].error_message # NoData
        /\ tasks[id].locked_by = NoWorker
        /\ pc[t] = "exec"
        /\ cur[t] # id
        /\ attempts[cur[t]] = 0
        /\ tasks_processed[t] > 0

\* C27: rollback chain.  Every rollback_operation task has no rollback
\* payload and names an original task that is not a rollback task, so the
\* chain from an original task is one task long; and whatever the outcome of
\* an attempt on a rollback task, its failure handling does not reach
\* _schedule_rollback.
C27_RollbackChain ==
    /\ \A id \in Ids :
          tasks[id].task_type = "rollback_operation" =>
              /\ tasks[id].rollback_data = NoData
              /\ tasks[id].original_task_id \in Ids
              /\ tasks[tasks[id].original_task_id].task_type # "rollback_operation"
    /\ \A t \in Threads :
          (pc[t] = "exec" /\ obj[t].task_type = "rollback_operation") =>
              \A outcome \in Outcomes, fault \in Faults :
                  LET res == ExecuteResult(obj[t], outcome, fault)
                  IN  ~SchedulesRollback(Progressed(obj[t], res))

\* a rollback task that has failed permanently, after all its retries, and
\* is the only rollback task of its original
C27_Witness ==
    \E id \in Ids :
        /\ tasks[id].task_type = "rollback_operation"
        /\ tasks[id].status = "failed"
        /\ tasks[id].retry_count = DefaultMaxRetries
        /\ Cardinality({ j \in Ids : tasks[j].original_task_id
                                        = tasks[id].original_task_id }) = 1

\* C28: pagination bookkeeping.  On the k-th page served from a pagination
\* session the call reports current_page = k, starts at offset 0 when k = 1
\* and otherwise where the session's previous page ended, reports as
\* total_items_returned the offset plus the items of this page, and reports
\* has_more_pages exactly when the page is full.
C28_Bookkeeping ==
    [][ (page'.op = "get_next_page" /\ page'.error = NoData) =>
          LET k == served'[page'.row] IN
          /\ page'.current_page = k
          /\ k = 1 => page'.offset = 0
          /\ (page.op = "get_next_page" /\ page.error = NoData
                 /\ page.row = page'.row)
                => page'.offset = page.total_items_returned
          /\ page'.total_items_returned = page'.offset + page'.items_in_page
          /\ page'.has_more_pages
                <=> (page'.items_in_page = page'.items_per_page) ]_vars

\* C29: cleanup of expired sessions.  A cleanup_expired_sessions call removes
\* every session whose expires_at is earlier than now, active or deactivated,
\* returns how many it removed, and keeps every other session, active or
\* deactivated, exactly as it was.
C29_Cleanup ==
    [][ page'.op = "cleanup_expired_sessions" =>
          LET gone == { i \in 1..Len(sessions) : sessions[i].expires_at < now }
              kept == (1..Len(sessions)) \ gone
          IN  /\ page'.count = Cardinality(gone)
              /\ Len(sessions') = Cardinality(kept)
              /\ \A i \in gone : \A j \in 1..Len(sessions') :
                     sessions'[j].id # sessions[i].id
              /\ \A i \in kept : \E j \in 1..Len(sessions') :
                     sessions'[j] = sessions[i] ]_vars

\* a sweep that removed one expired session and kept a deactivated session
\* that has not expired
C29_Witness ==
    /\ page.op = "cleanup_expired_sessions"
    /\ page.count = 1
    /\ Len(sessions) = 1
    /\ ~sessions[1].is_active
    /\ sessions[1].expires_at >= now
    /\ sessions[1].id = 2

\* C30: backoff honoured by the claim.  A worker claims a task that failure
\* handling has rescheduled (retry_count > 0, scheduled_at = the time of the
\* failure plus the delay) only when its scheduled_at is not later than now.
C30_BackoffHonoured ==
    [][ \A t \in Threads :
          (cur[t] = NoTask /\ cur'[t] # NoTask /\ tasks[cur'[t]].retry_count > 0
             /\ ~retried[cur'[t]])
              => tasks[cur'[t]].scheduled_at <= now ]_vars


\* ------------------------------------------------------------------ C31
\* C31: cancellation is final. When cancel_task returns true the task is stored
\* as cancelled and no worker holds it; from then on every step leaves its
\* status cancelled and no worker claims it: a worker that had the task when
\* cancel_task was called has committed before the call got the row.
C31_CancelFinal ==
    [][ /\ \A id \in Ids :
             tasks[id].status = "cancelled" =>
                /\ tasks'[id].status = "cancelled"
                /\ \A t \in Threads : cur'[t] # id
        /\ (lastCall'.op = "cancel_task" /\ lastCall'.result) =>
                /\ tasks'[lastCall'.task_id].status = "cancelled"
                /\ \A t \in Threads : cur'[t] # lastCall'.task_id ]_vars

\* a task that a worker ran and put back to pending was cancelled, and a
\* worker has since run another task up to its commit
C31_Witness ==
    \E id \in Ids, t \in Threads :
        /\ tasks[id].status = "cancelled"
        /\ attempts[id] >= 1
        /\ pc[t] = "commit"
        /\ cur[t] # id


\* ------------------------------------------------------------------ C32
\* C32: over the whole life of a task, retry_task calls included, at most one
\* rollback_operation task names it as its original task.
C32_SingleRollback ==
    \A id \in Ids :
        Cardinality({ r \in Ids : /\ tasks[r].task_type = "rollback_operation"
                                  /\ tasks[r].original_task_id = id }) <= 1


\* ------------------------------------------------------------------ C33
\* C33: a rollback_operation task becomes visible to the workers only after
\* the failed status of its original task has been stored: whenever a worker
\* claims a rollback task, the table shows the original task as failed.
C33_RollbackAfterFailure ==
    [][ \A t \in Threads, r \in Ids :
            ( /\ cur[t] # r
              /\ cur'[t] = r
              /\ tasks[r].task_type = "rollback_operation"
              /\ tasks[r].original_task_id \in Ids ) =>
                tasks[tasks[r].original_task_id].status = "failed" ]_vars


\* ------------------------------------------------------------------ C34
\* the soft lock of one row agrees with its status
LockConsistent(t) ==
    /\ (t.locked_by # NoWorker) <=> (t.status = "processing")
    /\ (t.locked_at # NoTime) <=> (t.status = "processing")

\* C34: soft-lock invariant. In every stored row, and in every row a worker
\* has written in its open transaction, locked_by and locked_at are set if and
\* only if the status is processing; so completion, retry, terminal failure,
\* cancel, the orphan sweep and retry_task all leave both fields cleared.
C34_SoftLock ==
    /\ \A id \in Ids : LockConsistent(tasks[id])
    /\ \A t \in Threads : cur[t] # NoTask => LockConsistent(obj[t])

\* the sweep has put an orphaned row back to pending, a retried row is pending
\* again after a failed attempt, and the worker holds a claimed row
C34_Witness ==
    \E a \in Ids, b \in Ids, t \in Threads :
        /\ tasks[a].status = "pending" /\ tasks[a].progress = 10 /\ attempts[a] = 0
        /\ retried[b] /\ attempts[b] >= 1
        /\ cur[t] # NoTask /\ obj[t].status = "processing"


\* ------------------------------------------------------------------ C35
\* C35: fixed pool. While the engine runs, the live worker loops are no more
\* than the threads the latest start() created and at most one monitor loop
\* is alive: threads left over from before a stop() do not go on after the
\* engine is started again.
C35_FixedPool ==
    running =>
        /\ Cardinality({ t \in Threads : pc[t] # "none" }) <= Cardinality(workers)
        /\ monitors <= 1

\* ------------------------------------------------------------------ C36
\* C36: after stop() has returned and until the next start(), no worker claims
\* a task: no step taken while the engine is stopped gives a thread a row it
\* did not hold before.
C36_NoClaimAfterStop ==
    [][ (~running /\ ~joining) =>
            \A t \in Threads : cur'[t] # NoTask => cur'[t] = cur[t] ]_vars


\* ------------------------------------------------------------------ C37
\* C37: in every state the table holds at most one active session for each
\* (session_id, endpoint, query_hash), also when calls for the same triple
\* overlap.
C37_OneActiveSession ==
    \A i \in 1..Len(sessions), j \in 1..Len(sessions) :
        ( /\ i # j
          /\ sessions[i].is_active
          /\ sessions[j].is_active
          /\ sessions[i].session_id = sessions[j].session_id
          /\ sessions[i].endpoint = sessions[j].endpoint ) =>
            sessions[i].query_hash # sessions[j].query_hash

=============================================================================
